---- MODULE Spec2Model ----
(***************************************************************************)
(* Verification model of bot-zeus: the Nonce Sequencer (NonceManager),    *)
(* the transaction paths that use it (iniciar_flash_loan,                 *)
(* realizar_transacao, _enviar_e_aguardar_transacao), the execution       *)
(* engine (executar_arbitragem_com_flashloan), the supervisor loop        *)
(* (iniciar_bot_arbitragem) and the RPC endpoint manager (try_failover,   *)
(* maybe_return_to_preferred, _hot_switch).                               *)
(*                                                                         *)
(* arbitrage.py imports the flash-loan entry point under the name         *)
(* iniciar_operacao_flash_loan; flash_loan.py defines it as               *)
(* iniciar_flash_loan.  The model binds the call at arbitrage.py:513 to   *)
(* iniciar_flash_loan.                                                     *)
(***************************************************************************)
EXTENDS Integers, Sequences, FiniteSets, TLC

\* ---------------------------------------------------------------- bounds
MaxNonce == 2      \* the account's transaction count is explored up to here
MaxLag == 1        \* how many transactions/blocks a node's view may lag
MaxHeight == 1     \* chain heights explored
TickSeconds == 60  \* granularity of the wall clock
MaxQuotes == 2     \* quote requests explored in one run
MaxRoutes == 1     \* candidate routes (fee tiers, paths) explored per quote request
CacheTick == 1     \* granularity of the clock the quote cache is aged with
MaxPathLen == 4    \* longest token sequence handed to the path encoder
MaxReserve == 3    \* pool reserves explored exhaustively up to here
MaxTargets == 1    \* target tokens visited by one scan pass
MaxAttempts == 3   \* receipt polls of verificar_recibo (max_attempts, 15 in the source)
MaxThreads == 3    \* worker threads the control surface creates in one run
MaxGrid == 2       \* entries of the size grid (and of its extension) that are tried

\* ------------------------------------------------------ program constants
FailoverMinIntervalSec == 120
PrimaryTryCooldownSec == 600
StaleSeconds == 120
BalanceSleepSeconds == 300
SlippageBps == 50
BpsDenominator == 10000
FlashLoanFeeNum == 9
CacheTtlSec == 2
QuoteAttempts == 2
AddressBytes == 20
Uint24Max == 16777215

Urls == {"custom", "infura", "local"}
NoUrl == "none"
ReadErr == -1      \* a network read that raised
NoBlock == -1      \* _last_block_state["num"] is None
CallErr == -1      \* an external quote call that raised
Raised == -1       \* a quote function that raised to its caller
FastScanBudgetSec == 60   \* scan budgets up to here make a cycle a fast-scan cycle
FastScanEmaMs == 2000     \* block latencies above this make a cycle a fast-scan cycle
FastScanTokens == 3       \* active tokens a fast-scan cycle keeps
LockStaleSec == 300
MantissaBits == 53       \* a lock file younger than this is taken for a live instance
NegInf == -1000000000  \* Decimal("-inf"): the net profit when the gas cost is infinite

VARIABLES
    \* --- the network, as seen through the RPC endpoints
    rpcUp,          \* [Urls -> BOOLEAN]: connectivity + smoke read succeed now
    chainNonce,     \* the account's transaction count at the latest block
    pendingTx,      \* nonces of transactions submitted and not yet mined
    height,         \* current chain height
    \* --- utils/config.py module state
    cands,          \* _provider_candidates(): CUSTOM_RPC_URL, INFURA_URL if set
    chosen_url,     \* cfg.chosen_url
    cfgWeb3,        \* endpoint of config['web3'] / cfg.web3_instance
    nms,            \* NonceManager objects: 0 = built at import, 1 = built by _hot_switch
    cfgNm,          \* which object config['nonce_manager'] refers to
    cfgDex,         \* endpoint config['dex_contracts'] is bound to
    cfgFl,          \* endpoint config['flashloan_contract'] is bound to
    importWeb3,     \* endpoint of the module globals bound at import (flash_loan.web3, ...)
    \* --- utils/rpc_utils.py module state (clocks hold now - timestamp, capped)
    sinceFailover,      \* now - _last_failover_ts
    sincePrimaryTry,    \* now - _last_primary_try_ts
    sinceAttempt,       \* time since try_failover last probed a candidate (observer's clock)
    metrics,            \* _metrics: per endpoint, the "fails" and "switches" counters
    \* --- utils/liquidity_utils.py module state
    quote_cache,        \* _quote_cache: key -> entry, age = now - ts
    quoteCount,         \* quote requests served so far
    lastQuote,          \* the last quote request, what it did and returned
    \* --- calls of the pure functions (route generators, path encoder, solver)
    calc,               \* the inputs drawn for a call and, once made, its result
    \* --- one pass of identificar_melhor_oportunidade
    scan,               \* the pass's inputs, its position and its locals
    \* --- src/bot_main.py: the lock file, the control surface and its threads
    main,
    \* --- src/arbitrage.py module state
    pc,             \* position of the worker in iniciar_bot_arbitragem
    stop,           \* stop_event
    DRY_RUN,
    arbWeb3,        \* endpoint of arbitrage.web3
    lastBlockNum,   \* _last_block_state["num"]
    sinceBlockTs,   \* now - _last_block_state["ts"]
    opp,            \* melhor_oportunidade of the current cycle
    exec,           \* what executar_arbitragem_com_flashloan computed this cycle
    sentInCycle,    \* flash-loan transactions submitted in the current cycle
    \* --- results of the last operation
    lastOp,         \* last NonceManager / transaction operation and its result
    lastRpc         \* last endpoint-manager operation and its result

netVars == <<rpcUp, chainNonce, pendingTx, height>>
cfgVars == <<cands, chosen_url, cfgWeb3, nms, cfgNm, cfgDex, cfgFl, importWeb3>>
rpcVars == <<sinceFailover, sincePrimaryTry, sinceAttempt, metrics>>
liqVars == <<quote_cache, quoteCount, lastQuote>>
fnVars == <<calc, scan, main>>
arbVars == <<pc, stop, DRY_RUN, arbWeb3, lastBlockNum, sinceBlockTs, opp, exec, sentInCycle>>
vars == <<netVars, cfgVars, rpcVars, liqVars, fnVars, arbVars, lastOp, lastRpc>>

Min(a, b) == IF a < b THEN a ELSE b

Max(a, b) == IF a > b THEN a ELSE b

\* ------------------------------------------- utils/liquidity_utils.py
V3Dex == "UniswapV3"
V2Dexs == {"SushiSwapV2", "QuickSwapV2"}
QuoteDexs == {V3Dex} \cup V2Dexs \cup {"Other"}
QuoteAmounts == {1000}

QuoteFns == {"obter_preco_saida", "obter_preco_saida_e_fee",
             "obter_melhor_caminho_v2_e_quote", "quote_v3_multihop"}

\* the fee tiers tried by obter_preco_saida(_e_fee), the default fees_all of
\* quote_v3_multihop, and the candidate paths of _candidate_v2_paths
V3Fees == <<"100", "500", "3000", "10000">>
MultihopFees == <<"500", "3000">>
V2Paths == <<"direct", "wmatic", "weth", "usdt", "dai">>

\* the first MaxRoutes candidates of a list
Routes(seq) == SubSeq(seq, 1, Min(Len(seq), MaxRoutes))

\* what a pool returns when the call succeeds: it depends on the venue and the route
PoolOut(dex, i) ==
    (IF dex = V3Dex THEN 1000 ELSE IF dex = "SushiSwapV2" THEN 900 ELSE 1100) + 10 * i

\* the fate of the attempts of one external call: TRUE = the attempt raised
AttemptFates == {<<FALSE>>, <<TRUE, FALSE>>, <<TRUE, TRUE>>}
QuoteInputs == [1..MaxRoutes -> AttemptFates]

\* _quote_cache: every key the model's requests can use, for one token pair.
\* A key is (kind, route, amount); the V2 keys carry the path, not the venue.
CacheKinds == {"v3_single", "v3_single_fee", "v2_path", "v2_path_fee", "v2_best"}
CacheRoutes ==
    {V3Fees[i] : i \in 1..Len(Routes(V3Fees))} \cup {V2Paths[i] : i \in 1..Len(Routes(V2Paths))}
CacheKeys == CacheKinds \X CacheRoutes \X QuoteAmounts

\* an entry is (ts, value); age = now - ts; dex (not in the program) remembers
\* which venue's call produced the value
NoEntry == [age |-> -1, val |-> 0, dex |-> "none"]
None == -1

\* _cache_get, lines 18-25
cache_get(cache, key) ==
    IF cache[key] = NoEntry THEN None
    ELSE IF cache[key].age > CacheTtlSec THEN None
    ELSE cache[key].val

\* _cache_set, lines 27-28
cache_set(cache, key, value, dex) ==
    [cache EXCEPT ![key] = [age |-> 0, val |-> value, dex |-> dex]]

NoQuote == [fn |-> "none", dex |-> "none", valid |-> TRUE, amount |-> 0, ret |-> 0,
            route |-> "none", calls |-> 0, failed |-> 0, recorded |-> 0, maxAttempts |-> 0,
            hits |-> 0, maxHitAge |-> 0, foreignHit |-> FALSE, repeat |-> FALSE, prevRet |-> 0,
            age |-> 0]

\* the state a quote function works on
QuoteState(cache) ==
    [cache |-> cache, out |-> 0, best |-> 0, bestRoute |-> "none", calls |-> 0, failed |-> 0,
     recorded |-> 0, maxAttempts |-> 0, hits |-> 0, maxHitAge |-> 0, foreignHit |-> FALSE,
     ret |-> 0]

\* the retry loop "for _ in range(2)": stop at the first success, record_fail
\* after each attempt that raised (lines 203-210, 230-237, 401-408)
RetryCall(fates, value) ==
    IF ~fates[1] THEN [out |-> value, attempts |-> 1, failed |-> 0, recorded |-> 0]
    ELSE IF Len(fates) >= QuoteAttempts /\ ~fates[2]
         THEN [out |-> value, attempts |-> 2, failed |-> 1, recorded |-> 1]
    ELSE [out |-> 0, attempts |-> QuoteAttempts, failed |-> QuoteAttempts,
          recorded |-> QuoteAttempts]

\* quote_v3_multihop's call, lines 113-125: one attempt, no record_fail
SingleCall(fates, value) ==
    IF ~fates[1] THEN [out |-> value, attempts |-> 1, failed |-> 0, recorded |-> 0]
    ELSE [out |-> 0, attempts |-> 1, failed |-> 1, recorded |-> 0]

Counted(st, rc) ==
    [st EXCEPT !.out = rc.out, !.calls = @ + rc.attempts, !.failed = @ + rc.failed,
               !.recorded = @ + rc.recorded, !.maxAttempts = Max(@, rc.attempts)]

\* the cached call of one route: lines 195-214, 224-240, 395-413
CachedCall(st, key, dex, fates, value) ==
    LET cached == cache_get(st.cache, key) IN
    IF cached # None
    THEN [st EXCEPT !.out = cached, !.hits = @ + 1,
                    !.maxHitAge = Max(@, st.cache[key].age),
                    !.foreignHit = @ \/ st.cache[key].dex # dex]
    ELSE LET st1 == Counted(st, RetryCall(fates, value))
         IN IF st1.out # 0
            THEN [st1 EXCEPT !.cache = cache_set(@, key, st1.out, dex)]
            ELSE st1

Better(st, route) ==
    IF st.out > st.best THEN [st EXCEPT !.best = st.out, !.bestRoute = route] ELSE st

\* the loop over fee tiers or candidate paths, keeping the best output
RECURSIVE QuoteLoop(_, _, _, _, _, _, _)
QuoteLoop(st, kind, dex, routes, i, amount, inp) ==
    IF i > Len(routes) THEN st
    ELSE LET st1 == CachedCall(st, <<kind, routes[i], amount>>, dex, inp[i], PoolOut(dex, i))
         IN QuoteLoop(Better(st1, routes[i]), kind, dex, routes, i + 1, amount, inp)

\* obter_preco_saida (kinds v3_single, v2_path) and obter_preco_saida_e_fee
\* (kinds v3_single_fee, v2_path_fee), lines 179-251 and 254-322.  valid: the
\* addresses pass Web3.to_checksum_address.
obter_preco_saida_kinds(st, kindV3, kindV2, dex, valid, amount, inp) ==
    IF ~valid THEN [st EXCEPT !.ret = 0]
    ELSE IF dex = V3Dex
    THEN LET st1 == QuoteLoop(st, kindV3, dex, Routes(V3Fees), 1, amount, inp)
         IN [st1 EXCEPT !.ret = st1.best]
    ELSE IF dex \in V2Dexs
    THEN LET st1 == CachedCall(st, <<kindV2, "direct", amount>>, dex, inp[1], PoolOut(dex, 1))
         IN [st1 EXCEPT !.ret = st1.out, !.bestRoute = "direct"]
    ELSE [st EXCEPT !.ret = 0]

obter_preco_saida(st, dex, valid, amount, inp) ==
    obter_preco_saida_kinds(st, "v3_single", "v2_path", dex, valid, amount, inp)

obter_preco_saida_e_fee(st, dex, valid, amount, inp) ==
    obter_preco_saida_kinds(st, "v3_single_fee", "v2_path_fee", dex, valid, amount, inp)

\* obter_melhor_caminho_v2_e_quote, lines 382-419
obter_melhor_caminho_v2_e_quote(st, dex, valid, amount, inp) ==
    IF dex \notin V2Dexs THEN [st EXCEPT !.ret = 0]
    ELSE IF ~valid THEN [st EXCEPT !.ret = 0]
    ELSE LET st1 == QuoteLoop(st, "v2_best", dex, Routes(V2Paths), 1, amount, inp)
         IN [st1 EXCEPT !.ret = st1.best]

\* quote_v3_multihop, lines 61-126: the conversions at 66-67 are outside any
\* try; each candidate is called once, uncached
RECURSIVE MultihopLoop(_, _, _, _)
MultihopLoop(st, routes, i, inp) ==
    IF i > Len(routes) THEN st
    ELSE LET st1 == Counted(st, SingleCall(inp[i], PoolOut(V3Dex, i)))
         IN MultihopLoop(Better(st1, routes[i]), routes, i + 1, inp)

quote_v3_multihop(st, dex, valid, amount, inp) ==
    IF ~valid THEN [st EXCEPT !.ret = Raised]
    ELSE LET st1 == MultihopLoop(st, Routes(MultihopFees), 1, inp)
         IN [st1 EXCEPT !.ret = st1.best]

Quote(fn, st, dex, valid, amount, inp) ==
    IF fn = "obter_preco_saida" THEN obter_preco_saida(st, dex, valid, amount, inp)
    ELSE IF fn = "obter_preco_saida_e_fee" THEN obter_preco_saida_e_fee(st, dex, valid, amount, inp)
    ELSE IF fn = "obter_melhor_caminho_v2_e_quote"
    THEN obter_melhor_caminho_v2_e_quote(st, dex, valid, amount, inp)
    ELSE quote_v3_multihop(st, dex, valid, amount, inp)

\* ------------------------------------------------------------ the network
\* web3.eth.get_transaction_count(wallet) on endpoint ep when the chain holds
\* c transactions of the wallet: the count of a node that may lag, or an exception.
NetReadsAt(ep, c) ==
    IF rpcUp[ep]
    THEN {x \in 0..c : x >= c - MaxLag} \cup {ReadErr}
    ELSE {ReadErr}

NetReads(ep) == NetReadsAt(ep, chainNonce)

\* ------------------------------------------------- utils/nonce_utils.py
\* A NonceManager object: self.nonce, the endpoint of self.web3, and `via`,
\* the method that last touched self.nonce during the current operation.
NonceManager(ep, r) == [nonce |-> r, ep |-> ep, via |-> "init"]

ClearVia(nm) == [nm EXCEPT !.via = "none"]

sync_with_network(nm, r) ==
    IF r = ReadErr THEN [nm EXCEPT !.via = "read_failed"]
    ELSE [nm EXCEPT !.nonce = r, !.via = "sync_with_network"]

reset_nonce(nm, r) ==
    IF r = ReadErr THEN [nm EXCEPT !.via = "read_failed"]
    ELSE [nm EXCEPT !.nonce = r, !.via = "reset_nonce"]

get_nonce(nm, refresh, r) ==
    IF refresh
    THEN IF r = ReadErr THEN [nm EXCEPT !.via = "read_failed"]
         ELSE [nm EXCEPT !.nonce = r, !.via = "get_nonce_refresh"]
    ELSE nm

increment_nonce_by2(nm) == [nm EXCEPT !.nonce = @ + 2, !.via = "increment_nonce"]

increment_nonce(nm) == [nm EXCEPT !.nonce = @ + 1, !.via = "increment_nonce"]

incrementar_se_confirmado(nm, status, r) ==
    IF status = 1 THEN increment_nonce(nm) ELSE reset_nonce(nm, r)

\* ------------------------------------------------- route generation
\* (utils/liquidity_utils.py: _candidate_v2_paths, quote_v3_multihop)
\* Token addresses after Web3.to_checksum_address.
Addrs == {"0xUSDC", "0xWMATIC", "0xWETH", "0xUSDT", "0xDAI"}
HubAddrs == Addrs \ {"0xUSDC"}
\* the tokens a route is asked for: a non-hub token and two hub tokens
PathTokens == {"0xUSDC", "0xWMATIC", "0xWETH"}
\* lines 69 and 340: the hub keys, in the order the loops visit them
HubKeys == <<"wmatic", "weth", "usdt", "dai">>
\* TOKENS[key]['address'] for the four hub keys (utils/config.py:94-98 reads
\* them from the environment, so two keys can carry the same address)
HubConfigs == [1..Len(HubKeys) -> HubAddrs]
\* lines 353-356: utils.config exports no V2_MAX_HOPS, the import fails
V2_MAX_HOPS == 1
\* line 81: config.get('V3_MAX_HOPS', 1)
V3MaxHopsChoices == {0, 1, 2}

\* lines 348-350 and 90-92: the hubs that differ from both end tokens
HubsBetween(token_in, token_out, hubs) ==
    SelectSeq(hubs, LAMBDA h : h # token_in /\ h # token_out)

\* lines 358-367 and 98-104: ordered pairs of hub positions i # j, neither
\* hub equal to an end token
HubPairs(token_in, token_out, hubs) ==
    LET n == Len(hubs)
        all == [k \in 1..(n * n) |-> <<((k - 1) \div n) + 1, ((k - 1) % n) + 1>>]
        ok(p) == /\ p[1] # p[2]
                 /\ hubs[p[1]] \notin {token_in, token_out}
                 /\ hubs[p[2]] \notin {token_in, token_out}
        kept == SelectSeq(all, ok)
    IN  [k \in 1..Len(kept) |-> <<hubs[kept[k][1]], hubs[kept[k][2]]>>]

\* lines 369-379: drop later copies of a path, keep the order, keep 2..4 nodes
RECURSIVE Unique(_, _, _)
Unique(paths, i, acc) ==
    IF i > Len(paths) THEN acc
    ELSE LET p == paths[i]
             seen == \E j \in 1..Len(acc) : acc[j] = p
         IN  IF Len(p) < 2 \/ Len(p) > 4 \/ seen THEN Unique(paths, i + 1, acc)
             ELSE Unique(paths, i + 1, Append(acc, p))

\* _candidate_v2_paths, lines 324-379
candidate_v2_paths(token_in, token_out, hubs) ==
    LET direct == << <<token_in, token_out>> >>
        hs == HubsBetween(token_in, token_out, hubs)
        one == [k \in 1..Len(hs) |-> <<token_in, hs[k], token_out>>]
        hp == HubPairs(token_in, token_out, hubs)
        two == IF V2_MAX_HOPS >= 2
               THEN [k \in 1..Len(hp) |-> <<token_in, hp[k][1], hp[k][2], token_out>>]
               ELSE <<>>
    IN  Unique(direct \o one \o two, 1, <<>>)

\* all fee sequences of length n over fees_all, in the order of the nested loops
RECURSIVE FeeCombos(_, _)
FeeCombos(fees, n) ==
    IF n = 0 THEN << <<>> >>
    ELSE LET rest == FeeCombos(fees, n - 1)
             m == Len(rest)
         IN  [k \in 1..(Len(fees) * m) |->
                 <<fees[((k - 1) \div m) + 1]>> \o rest[((k - 1) % m) + 1]]

\* one token route with every fee combination (lines 87-88, 93-95, 105-108)
WithFees(toks, fees) ==
    LET fc == FeeCombos(fees, Len(toks) - 1)
    IN  [k \in 1..Len(fc) |-> [toks |-> toks, fees |-> fc[k]]]

RECURSIVE Concat(_, _)
Concat(seqs, i) == IF i > Len(seqs) THEN <<>> ELSE seqs[i] \o Concat(seqs, i + 1)

\* quote_v3_multihop, lines 85-108: the candidate list
v3_candidates(token_in, token_out, hubs, fees, max_hops) ==
    LET hs == HubsBetween(token_in, token_out, hubs)
        hp == HubPairs(token_in, token_out, hubs)
        one == [k \in 1..Len(hs) |-> WithFees(<<token_in, hs[k], token_out>>, fees)]
        two == IF max_hops >= 2
               THEN [k \in 1..Len(hp) |->
                        WithFees(<<token_in, hp[k][1], hp[k][2], token_out>>, fees)]
               ELSE <<>>
    IN  WithFees(<<token_in, token_out>>, fees) \o Concat(one, 1) \o Concat(two, 1)

\* quote_v3_multihop, lines 113-119: the candidates passed to quoteExactInput
v3_queried(token_in, token_out, hubs, fees, max_hops) ==
    SelectSeq(v3_candidates(token_in, token_out, hubs, fees, max_hops),
              LAMBDA c : ~(Len(c.toks) > max_hops + 2))

\* ------------------------------------------------- V3 path encoding
\* (utils/liquidity_utils.py: _encode_v3_path, encode_v3_path)
\* A token is its 20-byte identifier, bytes.fromhex(to_checksum_address(t)[2:]).
TokenIds == {[i \in 1..AddressBytes |-> i], [i \in 1..AddressBytes |-> 255 - i]}
\* fees offered to the encoder: three that fit in 24 bits and one that does not
FeeVals == {500, 3000, Uint24Max, Uint24Max + 1}

RECURSIVE SeqsUpTo(_, _)
SeqsUpTo(S, n) ==
    IF n = 0 THEN {<<>>}
    ELSE LET shorter == SeqsUpTo(S, n - 1)
         IN  shorter \cup {Append(q, x) : q \in {r \in shorter : Len(r) = n - 1}, x \in S}

\* line 58: int(f).to_bytes(3, byteorder='big') raises OverflowError outside 0..2^24-1
FitsUint24(f) == f >= 0 /\ f <= Uint24Max

to_bytes3_little_endian(f) == <<f % 256, (f \div 256) % 256, (f \div 65536) % 256>>
\* line 58: the three bytes of f, most significant first
to_bytes3(f) == <<(f \div 65536) % 256, (f \div 256) % 256, f % 256>>

EncError == [ok |-> FALSE, bytes |-> <<>>]

\* lines 48-59: append each token, followed by its fee while fees remain
RECURSIVE EncodeLoop(_, _, _, _)
EncodeLoop(tokens, fees, i, out) ==
    IF i > Len(tokens) THEN [ok |-> TRUE, bytes |-> out]
    ELSE IF i <= Len(fees)
         THEN IF FitsUint24(fees[i])
              THEN EncodeLoop(tokens, fees, i + 1, out \o tokens[i] \o to_bytes3(fees[i]))
              ELSE EncError
         ELSE EncodeLoop(tokens, fees, i + 1, out \o tokens[i])

\* _encode_v3_path, lines 38-59 (encode_v3_path, lines 129-130, forwards to it)
encode_v3_path(tokens, fees) ==
    IF Len(tokens) < 2 THEN EncError
    ELSE IF Len(fees) # Len(tokens) - 1 THEN EncError
    ELSE EncodeLoop(tokens, fees, 1, <<>>)

\* ------------------------------------------------- optimal-size solver
\* (utils/optimization_utils.py: calcular_quantidade_otima)
\* Reserves are small integers, plus the two values of the 1:2 scenario in
\* units of 10^4 base units.  In these ranges every product is exact in
\* Decimal at precision 50, and the 50-digit square root decides the sign of
\* the numerator and the integer part of the quotient exactly.
ReserveVals == (0..MaxReserve) \cup {100, 200}

\* the largest s with s * s <= n, for lo * lo <= n < hi * hi
RECURSIVE IsqrtBetween(_, _, _)
IsqrtBetween(n, lo, hi) ==
    IF hi - lo <= 1 THEN lo
    ELSE LET mid == (lo + hi) \div 2
         IN  IF mid * mid <= n THEN IsqrtBetween(n, mid, hi) ELSE IsqrtBetween(n, lo, mid)

\* floor of Decimal.sqrt()
Isqrt(n) == IsqrtBetween(n, 0, Min(n, 46340) + 1)

NoDirection_den_only(numPositive, den) == den <= 0
\* line 50: numerador <= 0 or denominador <= 0
NoDirection(numPositive, den) == ~numPositive \/ den <= 0

\* calcular_quantidade_otima, lines 13-54
calcular_quantidade_otima(r_in_a, r_out_a, r_in_b, r_out_b) ==
    LET prod == r_in_a * r_out_b * r_in_b * r_out_a
        sub == r_in_a * r_out_b
        \* numerador = sqrt(prod) - sub: its sign, and its floor
        numPositive == prod > sub * sub
        numFloor == Isqrt(prod) - sub
        denominador == r_in_a + r_in_b
    IN  IF NoDirection(numPositive, denominador) THEN 0
        ELSE numFloor \div denominador

\* a constant-product venue's answer to a swap of amount_in, fees left out
\* (an upper bound of what getAmountsOut returns)
constant_product_out(amount_in, r_in, r_out) ==
    IF amount_in <= 0 THEN 0 ELSE (amount_in * r_out) \div (r_in + amount_in)

lucro_bruto_base_no_principal(out2, q) == out2
\* src/arbitrage.py, lines 188 and 272: leg-2 output minus the amount borrowed
lucro_bruto_base(out2, q) == out2 - q

\* both legs at amount q: buy on venue A, sell the proceeds on venue B
TwoLegs(q, r_in_a, r_out_a, r_in_b, r_out_b) ==
    LET out1 == constant_product_out(q, r_in_a, r_out_a)
        out2 == constant_product_out(out1, r_in_b, r_out_b)
    IN  [amount |-> q, out1 |-> out1, out2 |-> out2, profit |-> lucro_bruto_base(out2, q)]

\* ------------------------------------------------- opportunity scanner
\* (src/arbitrage.py: calcular_lucro_liquido_esperado,
\* identificar_melhor_oportunidade)
\* Profits are in units of 1/BpsDenominator of a base unit of the borrowed
\* token, so that the flash-loan fee of 0.0009 is exact.
ScanVenues == <<"SushiSwapV2", "QuickSwapV2", "UniswapV3">>
\* the active tokens other than the borrowed one (lines 126-128)
ScanTargets == SubSeq(<<"usdt", "weth", "dai", "wmatic">>, 1, MaxTargets)
\* lines 165-166 and 198: the size grid and its extension
GridCandidates == SubSeq(<<100, 200, 350, 500, 750, 1000, 1500, 2000, 3000, 5000, 8000, 12000>>,
                         1, MaxGrid)
ExtraCandidates == SubSeq(<<20000, 30000, 50000>>, 1, MaxGrid)
ScanAmounts == {10000}
GrossVals == {9, 12, 15}
GasCostVals == {0, 30}
MinProfitChoices == {-300000, 0, 30000}

\* lines 70-104: gross profit less the flash-loan fee and the gas cost; the
\* gas cost is infinite when the oracle has no price
calcular_lucro_liquido_esperado(lucro_bruto, quantidade, custo_gas, preco_ok) ==
    IF ~preco_ok THEN NegInf
    ELSE lucro_bruto * BpsDenominator - quantidade * FlashLoanFeeNum
         - custo_gas * BpsDenominator

NoBest == [token_alvo |-> "none", dex_compra |-> "none", dex_venda |-> "none", lucro |-> 0]
NoCand == [lucro_bruto |-> 0, lucro_liquido |-> 0, tri |-> FALSE]

\* line 316: TRIANGULAR_ONLY and not is_tri_candidate
FilteredOut(tri_only, tri) == tri_only /\ ~tri

Selects_min_only(lucro, melhor_lucro, min_profit) == lucro >= min_profit
\* line 318
Selects(lucro, melhor_lucro, min_profit) == lucro > melhor_lucro /\ lucro >= min_profit

\* what the pass is expected to return after one more candidate: the first
\* candidate of greatest net profit among those that pass the filter and
\* meet the minimum (kept next to the program's own choice, for comparison)
ExpectedBest(expected, c, tri_only, min_profit, rec) ==
    IF ~FilteredOut(tri_only, c.tri) /\ c.lucro_liquido >= min_profit
       /\ (expected = NoBest \/ c.lucro_liquido > expected.lucro)
    THEN rec ELSE expected

\* ------------------------------------------------- the size grid search
\* (src/arbitrage.py, lines 161-223).  scores[k] is the net profit of the k-th
\* size, base grid first and extension after it, NoScore for a size that is
\* not scored (a leg quoted 0 or the gross profit is not positive); cut is the
\* first budget check that finds the budget exceeded (0: none does), the
\* checks numbered like the sizes they precede.
NoScore == NegInf - 1
GridScores == {NoScore, 0, 1, 2}
GridSizes == GridCandidates \o ExtraCandidates
NoGrid == [melhor_q |-> 0, melhor_lucro |-> 0, last_best_idx |-> 0, timeout |-> FALSE,
           evaluated |-> {}, ext |-> {}]

Improves_or_equal(lucro, melhor_lucro) == lucro >= melhor_lucro
\* lines 192 and 219
Improves(lucro, melhor_lucro) == lucro > melhor_lucro

\* lines 174-195 and 204-222: one size is quoted and, if scored, compared
GridScore(st, k, score, base) ==
    LET st1 == [st EXCEPT !.evaluated = @ \cup {k},
                          !.ext = IF base THEN @ ELSE @ \cup {k}]
    IN  IF score # NoScore /\ Improves(score, st.melhor_lucro)
        THEN [st1 EXCEPT !.melhor_lucro = score, !.melhor_q = GridSizes[k],
                         !.last_best_idx = IF base THEN k ELSE @]
        ELSE st1

\* lines 170-195
RECURSIVE GridLoop(_, _, _, _)
GridLoop(st, scores, cut, k) ==
    IF k > Len(GridCandidates) THEN st
    ELSE IF cut # 0 /\ k >= cut THEN [st EXCEPT !.timeout = TRUE]
    ELSE GridLoop(GridScore(st, k, scores[k], TRUE), scores, cut, k + 1)

\* lines 198-222
RECURSIVE ExtLoop(_, _, _, _)
ExtLoop(st, scores, cut, k) ==
    IF k > Len(GridSizes) THEN st
    ELSE IF cut # 0 /\ k >= cut THEN [st EXCEPT !.timeout = TRUE]
    ELSE IF GridSizes[k] <= st.melhor_q THEN ExtLoop(st, scores, cut, k + 1)
    ELSE ExtLoop(GridScore(st, k, scores[k], FALSE), scores, cut, k + 1)

\* lines 167-223
grid_search(scores, cut) ==
    LET st == GridLoop(NoGrid, scores, cut, 1)
    IN  IF ~st.timeout /\ st.last_best_idx = Len(GridCandidates)
        THEN ExtLoop(st, scores, cut, Len(GridCandidates) + 1)
        ELSE st

\* ------------------------------------------------- the fast-scan gate
\* (src/arbitrage.py, lines 39-40, 126-128 and 595-613)
\* utils.config.TOKENS, in the order of the dictionary
TokenList == <<"usdc", "usdt", "weth", "dai", "wmatic">>
BudgetChoices == {30, FastScanBudgetSec, FastScanBudgetSec + 1, 120}
EmaChoices == {0, FastScanEmaMs, FastScanEmaMs + 1}

\* lines 597-603; the latency is 0 while _ema_block_time is None
fast_scan(budget_sec, ema) == budget_sec <= FastScanBudgetSec \/ ema > FastScanEmaMs

\* line 608
first_three(old_active) ==
    IF Len(old_active) > FastScanTokens THEN SubSeq(old_active, 1, FastScanTokens)
    ELSE old_active

\* lines 126-128: the tokens the pass iterates over, the borrowed one skipped
scan_targets(active, token_emprestimo) ==
    SelectSeq(active, LAMBDA t : t # token_emprestimo)

NetworkReadMethods == {"sync_with_network", "reset_nonce", "get_nonce_refresh"}

\* ------------------------------------------------------------------ Init
NoOp == [op |-> "none", k |-> 0, outcome |-> "none", used |-> 0, before |-> 0, sent |-> 0]
NoOpp == [buy |-> "none", sell |-> "none", amount |-> 0]
NoExec == [quote2 |-> 0, amountOutMin1 |-> 0, amountOutMin2 |-> 0, gas |-> 0,
           result |-> "none"]
NoCalc == [op |-> "none"]
NoScan == [pos |-> "none"]
NoMain == [kind |-> "none"]
NoRpc == [op |-> "none", ret |-> FALSE, url |-> NoUrl, probed |-> {}, healthy |-> {},
          hsFailed |-> FALSE]

\* utils/config.py:73-125: the first candidate that connects becomes the
\* active endpoint; INFURA_URL comes first, the local node last.
StartupCandidates(cs) ==
    (IF \E i \in 1..Len(cs) : cs[i] = "infura" THEN <<"infura">> ELSE <<>>) \o <<"local">>

FirstConnected(seq, up) ==
    IF \E i \in 1..Len(seq) : up[seq[i]]
    THEN seq[CHOOSE i \in 1..Len(seq) : up[seq[i]] /\ \A j \in 1..(i-1) : ~up[seq[j]]]
    ELSE NoUrl

\* the endpoints this configuration names: the candidates and the local node
Configured(cs) == {cs[i] : i \in 1..Len(cs)} \cup {"local"}

InitState ==
    /\ cands \in {<<>>, <<"custom">>, <<"infura">>, <<"custom", "infura">>}
    /\ rpcUp \in [Urls -> BOOLEAN]
    /\ \A u \in Urls \ Configured(cands) : ~rpcUp[u]
    /\ FirstConnected(StartupCandidates(cands), rpcUp) # NoUrl
    /\ chosen_url = FirstConnected(StartupCandidates(cands), rpcUp)
    /\ cfgWeb3 = chosen_url
    /\ importWeb3 = chosen_url
    /\ arbWeb3 = chosen_url
    /\ cfgDex = chosen_url
    /\ cfgFl = chosen_url
    /\ chainNonce = 0
    /\ pendingTx = {}
    /\ height = 0
    /\ nms = [k \in 0..1 |-> NonceManager(chosen_url, chainNonce)]
    /\ cfgNm = 0
    /\ sinceFailover = FailoverMinIntervalSec
    /\ sincePrimaryTry = PrimaryTryCooldownSec
    /\ sinceAttempt = FailoverMinIntervalSec
    /\ metrics = [u \in Urls |-> [fails |-> 0, switches |-> 0]]
    /\ quote_cache = [k \in CacheKeys |-> NoEntry]
    /\ quoteCount = 0
    /\ lastQuote = NoQuote
    /\ pc = "loop_top"
    /\ stop = FALSE
    /\ DRY_RUN \in BOOLEAN
    /\ lastBlockNum = NoBlock
    /\ sinceBlockTs = StaleSeconds + TickSeconds
    /\ opp = NoOpp
    /\ exec = NoExec
    /\ sentInCycle = 0
    /\ lastOp = NoOp
    /\ lastRpc = NoRpc

Init == InitState /\ calc = NoCalc /\ scan = NoScan /\ main = NoMain

\* ------------------------------------------------- the NonceManager API
\* Each action is one call on the import-time NonceManager object.
ApiUnchanged ==
    UNCHANGED <<netVars, cands, chosen_url, cfgWeb3, cfgNm, cfgDex, cfgFl, importWeb3,
                rpcVars, liqVars, fnVars, arbVars, lastRpc>>

GetNonce ==
    \E refresh \in BOOLEAN : \E r \in NetReads(nms[0].ep) :
        LET nm == get_nonce(ClearVia(nms[0]), refresh, r) IN
        /\ nms' = [nms EXCEPT ![0] = nm]
        /\ lastOp' = [NoOp EXCEPT !.op = IF refresh THEN "get_nonce_refresh" ELSE "get_nonce",
                                  !.before = nms[0].nonce,
                                  !.used = nm.nonce]
        /\ ApiUnchanged

IncrementNonce ==
    /\ nms[0].nonce < MaxNonce
    /\ nms' = [nms EXCEPT ![0] = increment_nonce(ClearVia(nms[0]))]
    /\ lastOp' = [NoOp EXCEPT !.op = "increment_nonce", !.before = nms[0].nonce]
    /\ ApiUnchanged

IncrementarSeConfirmado ==
    \E status \in {0, 1} : \E r \in NetReads(nms[0].ep) :
        /\ status = 1 => nms[0].nonce < MaxNonce
        /\ nms' = [nms EXCEPT ![0] = incrementar_se_confirmado(ClearVia(nms[0]), status, r)]
        /\ lastOp' = [NoOp EXCEPT !.op = "incrementar_se_confirmado",
                                  !.before = nms[0].nonce,
                                  !.outcome = IF status = 1 THEN "success" ELSE "revert"]
        /\ ApiUnchanged

ResetNonce ==
    \E r \in NetReads(nms[0].ep) :
        /\ nms' = [nms EXCEPT ![0] = reset_nonce(ClearVia(nms[0]), r)]
        /\ lastOp' = [NoOp EXCEPT !.op = "reset_nonce", !.before = nms[0].nonce]
        /\ ApiUnchanged

SyncWithNetwork ==
    \E r \in NetReads(nms[0].ep) :
        /\ nms' = [nms EXCEPT ![0] = sync_with_network(ClearVia(nms[0]), r)]
        /\ lastOp' = [NoOp EXCEPT !.op = "sync_with_network", !.before = nms[0].nonce]
        /\ ApiUnchanged

\* The account's transaction count grows when a transaction of the wallet is mined.
AccountTxMined ==
    /\ pc = "loop_top"
    /\ chainNonce < MaxNonce
    /\ chainNonce' = chainNonce + 1
    /\ pendingTx' = {n \in pendingTx : n > chainNonce}
    /\ UNCHANGED <<rpcUp, height, cfgVars, rpcVars, liqVars, fnVars, arbVars, lastOp, lastRpc>>

\* An endpoint goes down or comes back.  The worker observes such changes
\* between cycles; within a cycle every network call can still fail on its own.
RpcChange ==
    \E u \in Configured(cands) :
        /\ pc = "loop_top"
        /\ rpcUp' = [rpcUp EXCEPT ![u] = ~@]
        /\ UNCHANGED <<chainNonce, pendingTx, height, cfgVars, rpcVars, liqVars, fnVars, arbVars, lastOp, lastRpc>>

NonceNext ==
    \/ GetNonce
    \/ IncrementNonce
    \/ IncrementarSeConfirmado
    \/ ResetNonce
    \/ SyncWithNetwork
    \/ AccountTxMined
    \/ RpcChange

SpecNonce == Init /\ [][NonceNext]_vars

\* ------------------------------------------------------------- claim C2
\* C2: across any sequence of NonceManager operations the stored nonce never
\* decreases except through an authoritative network read (sync_with_network,
\* reset_nonce, get_nonce(refresh=True)); get_nonce() without refresh leaves
\* it unchanged and increment_nonce raises it by exactly 1.
C2_NonceOnlyDropsOnSync ==
    [][/\ nms'[0].nonce < nms[0].nonce => nms'[0].via \in NetworkReadMethods
       /\ lastOp'.op = "get_nonce" => nms'[0].nonce = nms[0].nonce
       /\ (nms'[0].via = "increment_nonce" /\ nms' # nms) =>
              nms'[0].nonce = nms[0].nonce + 1]_vars

\* a network read has lowered a nonce that local increments had raised above
\* the network's count
C2_Witness ==
    /\ lastOp.op \in NetworkReadMethods
    /\ nms[0].via = lastOp.op
    /\ nms[0].nonce < lastOp.before

\* ----------------------------------------------- submitting a transaction
\* What can happen to a transaction with nonce n sent through endpoint ep when
\* the chain holds c transactions of the wallet: an error while building,
\* signing or sending ("submit_error"; the only outcome of a nonce below the
\* chain's or of a dead endpoint), no receipt within the polling window
\* ("timeout"), or a receipt with status 1 ("success") or 0 ("revert").
TxOutcomes(ep, n, c) ==
    IF ~rpcUp[ep] \/ n < c THEN {"submit_error"}
    ELSE IF n > c \/ c >= MaxNonce THEN {"submit_error", "timeout"}
    ELSE {"submit_error", "timeout", "success", "revert"}

Mined(o) == o \in {"success", "revert"}
Failed(o) == o \in {"submit_error", "timeout", "revert", "sync_error"}

\* a mined transaction, successful or reverted, consumes its nonce
ChainAfter(c, o) == IF Mined(o) THEN c + 1 ELSE c

PendingAfter(p, n, o) ==
    IF o = "timeout" THEN p \cup {n}
    ELSE IF Mined(o) THEN p \ {n}
    ELSE p

\* the state a transaction path works on
TxState(nm) == [nm |-> nm, chain |-> chainNonce, pending |-> pendingTx,
                outcome |-> "none", used |-> nm.nonce, sent |-> 0]

AfterTx(st, nm, n, o) ==
    [nm |-> nm, chain |-> ChainAfter(st.chain, o), pending |-> PendingAfter(st.pending, n, o),
     outcome |-> o, used |-> n, sent |-> st.sent + 1]

\* src/flash_loan.py:86-111.  r is the read of the sync at line 88, o the
\* fate of the transaction.  Nothing touches the nonce after line 102.
iniciar_flash_loan(st, r, o) ==
    IF r = ReadErr
    THEN [st EXCEPT !.nm = sync_with_network(st.nm, r), !.outcome = "sync_error"]
    ELSE LET nm1 == ClearVia(sync_with_network(st.nm, r))
             n == get_nonce(nm1, FALSE, r).nonce
         IN AfterTx(st, nm1, n, o)

\* src/flash_loan.py:113-156.  liq: the liquidity check at 117-120 passed;
\* r: the read of get_nonce(refresh=True) at 135; o: the fate of the transaction.
realizar_transacao_always_increment(st, liq, r, o) ==
    IF ~liq THEN [st EXCEPT !.outcome = "no_liquidity"]
    ELSE IF r = ReadErr THEN [st EXCEPT !.nm = ClearVia(get_nonce(st.nm, TRUE, r)),
                                        !.outcome = "submit_error"]
    ELSE LET nm1 == ClearVia(get_nonce(st.nm, TRUE, r))
         IN AfterTx(st, IF Mined(o) THEN increment_nonce(nm1) ELSE nm1, nm1.nonce, o)

realizar_transacao(st, liq, r, o) ==
    IF ~liq THEN [st EXCEPT !.outcome = "no_liquidity"]
    ELSE IF r = ReadErr THEN [st EXCEPT !.nm = ClearVia(get_nonce(st.nm, TRUE, r)),
                                        !.outcome = "submit_error"]
    ELSE LET nm1 == ClearVia(get_nonce(st.nm, TRUE, r))
         IN AfterTx(st, IF o = "success" THEN increment_nonce(nm1) ELSE nm1, nm1.nonce, o)

\* utils/dex_operations.py:37-54.  n: the nonce the caller put in tx; o: the
\* fate of the transaction; r1: the read of reset_nonce inside
\* incrementar_se_confirmado; r2: the read of sync_with_network at line 53.
enviar_e_aguardar_transacao(st, n, o, r1, r2) ==
    LET nm0 == ClearVia(st.nm)
        nmC == incrementar_se_confirmado(nm0, IF o = "success" THEN 1 ELSE 0, r1)
        nm1 == IF o = "success" THEN nmC
               ELSE IF o = "revert"
                    THEN IF r1 = ReadErr THEN sync_with_network(nmC, r2) ELSE nmC
                    ELSE sync_with_network(nm0, r2)
    IN AfterTx(st, nm1, n, o)

\* ------------------------------------------- standalone transaction paths
TxUnchanged ==
    UNCHANGED <<rpcUp, height, cands, chosen_url, cfgWeb3, cfgNm, cfgDex, cfgFl, importWeb3,
                rpcVars, liqVars, fnVars, arbVars, lastRpc>>

Others(k) == [j \in 0..1 |-> IF j = k THEN nms[j] ELSE ClearVia(nms[j])]

FinishTx(opname, k, st) ==
    /\ nms' = [Others(k) EXCEPT ![k] = st.nm]
    /\ chainNonce' = st.chain
    /\ pendingTx' = {n \in st.pending : n >= st.chain}
    /\ lastOp' = [NoOp EXCEPT !.op = opname, !.k = k, !.outcome = st.outcome,
                              !.used = st.used, !.sent = st.sent]

\* the reads a transaction path may issue after a transaction with fate o:
\* a read that is never issued is fixed to ReadErr
ReadsAfter(ep, c, o, needed) == IF needed THEN NetReadsAt(ep, ChainAfter(c, o)) ELSE {ReadErr}

\* iniciar_flash_loan called on its own
IniciarFlashLoan ==
    /\ \E r \in NetReads(nms[0].ep) :
         LET n == IF r = ReadErr THEN nms[0].nonce ELSE r IN
         \E o \in TxOutcomes(importWeb3, n, chainNonce) :
            FinishTx("iniciar_flash_loan", 0,
                     iniciar_flash_loan(TxState(ClearVia(nms[0])), r, o))
    /\ TxUnchanged

\* realizar_transacao, called with the import-time NonceManager or with
\* config['nonce_manager']; it sends through flash_loan.web3.
RealizarTransacao ==
    /\ \E k \in {0, cfgNm} : \E liq \in BOOLEAN : \E r \in NetReads(nms[k].ep) :
         LET n == IF r = ReadErr THEN nms[k].nonce ELSE r IN
         \E o \in TxOutcomes(importWeb3, n, chainNonce) :
            FinishTx("realizar_transacao", k,
                     realizar_transacao(TxState(ClearVia(nms[k])), liq, r, o))
    /\ TxUnchanged

\* utils/dex_operations.py:56-132: an approve when the allowance is short
\* (nonce from get_nonce(refresh=True)), then the swap (nonce from get_nonce()).
SwapStage(st) ==
    \E o \in TxOutcomes(importWeb3, st.nm.nonce, st.chain) :
    \E r1 \in ReadsAfter(st.nm.ep, st.chain, o, o = "revert") :
    \E r2 \in ReadsAfter(st.nm.ep, st.chain, o,
                         o \in {"timeout", "submit_error"} \/ (o = "revert" /\ r1 = ReadErr)) :
        FinishTx("realizar_swap", 0, enviar_e_aguardar_transacao(st, st.nm.nonce, o, r1, r2))

RealizarSwap ==
    /\ \E needApprove \in BOOLEAN :
         LET st0 == TxState(ClearVia(nms[0])) IN
         IF ~needApprove THEN SwapStage(st0)
         ELSE \E r0 \in NetReads(nms[0].ep) :
              IF r0 = ReadErr
              THEN FinishTx("realizar_swap", 0, [st0 EXCEPT !.outcome = "submit_error"])
              ELSE LET stA == [st0 EXCEPT !.nm = get_nonce(st0.nm, TRUE, r0)] IN
                   \E o1 \in TxOutcomes(importWeb3, stA.nm.nonce, stA.chain) :
                   \E r1 \in ReadsAfter(stA.nm.ep, stA.chain, o1, o1 = "revert") :
                   \E r2 \in ReadsAfter(stA.nm.ep, stA.chain, o1,
                                        o1 \in {"timeout", "submit_error"}
                                        \/ (o1 = "revert" /\ r1 = ReadErr)) :
                      LET st1 == enviar_e_aguardar_transacao(stA, stA.nm.nonce, o1, r1, r2) IN
                      IF o1 = "success" THEN SwapStage(st1)
                      ELSE FinishTx("realizar_swap", 0, st1)
    /\ TxUnchanged

\* a pending transaction is dropped from the mempool
DropPending ==
    /\ pc = "loop_top"
    /\ \E n \in pendingTx : pendingTx' = pendingTx \ {n}
    /\ UNCHANGED <<rpcUp, chainNonce, height, cfgVars, rpcVars, liqVars, fnVars, arbVars, lastOp, lastRpc>>

TxNext ==
    \/ IniciarFlashLoan
    \/ RealizarTransacao
    \/ RealizarSwap
    \/ AccountTxMined
    \/ DropPending
    \/ RpcChange

SpecTx == Init /\ [][TxNext]_vars

\* ------------------------------------------------- utils/rpc_utils.py
\* the part of utils.config that _hot_switch rewrites
CfgState == [web3 |-> cfgWeb3, chosen_url |-> chosen_url, nms |-> nms, cfgNm |-> cfgNm,
             dex |-> cfgDex, fl |-> cfgFl]

\* _provider_candidates() is the sequence cands; the preferred endpoint is CUSTOM_RPC_URL
Preferred == IF \E i \in 1..Len(cands) : cands[i] = "custom" THEN "custom" ELSE NoUrl

\* _build_web3 returns a handle iff the endpoint connects and answers block_number
build_web3(url) == rpcUp[url]

\* What can go wrong inside _hot_switch for endpoint u: the nonce read of
\* NonceManager(...) raises, a carregar_contrato of a DEX contract raises, the
\* carregar_contrato of the flash-loan receiver raises, or nothing.
HsInputs(u) ==
    {[fail |-> "nonce", r |-> ReadErr]} \cup
    {[fail |-> f, r |-> r] : f \in {"none", "contracts", "flashloan"},
                             r \in NetReads(u) \ {ReadErr}}

HsAll == UNION {HsInputs(u) : u \in Urls}

HsChoices == {f \in [Urls -> HsAll] : \A u \in Urls : f[u] \in HsInputs(u)}

\* _hot_switch, lines 70-125: each assignment takes effect as it is reached
hot_switch(c, url, in) ==
    LET c1 == [c EXCEPT !.web3 = url, !.chosen_url = url]
        c2 == [c1 EXCEPT !.nms[1] = NonceManager(url, in.r), !.cfgNm = 1]
        c3 == [c2 EXCEPT !.dex = url]
        c4 == [c3 EXCEPT !.fl = url]
    IN  IF in.fail = "nonce" THEN [cfg |-> c1, ok |-> FALSE]
        ELSE IF in.fail = "contracts" THEN [cfg |-> c2, ok |-> FALSE]
        ELSE IF in.fail = "flashloan" THEN [cfg |-> c3, ok |-> FALSE]
        ELSE [cfg |-> c4, ok |-> TRUE]

RpcResult(opname, c) ==
    [op |-> opname, cfg |-> c, ret |-> FALSE, url |-> NoUrl, probed |-> {}, healthy |-> {},
     hsFailed |-> FALSE, since |-> 0]

\* the loop of try_failover, lines 143-151, from candidate i on
RECURSIVE FailoverLoop(_, _, _, _)
FailoverLoop_no_probe_check(res, cs, i, inp) ==
    IF i > Len(cs) THEN res
    ELSE LET url == cs[i]
             hs == hot_switch(res.cfg, url, inp[url])
             res1 == [res EXCEPT !.probed = @ \cup {url}]
         IN IF hs.ok
            THEN [res1 EXCEPT !.cfg = hs.cfg, !.ret = TRUE, !.url = url]
            ELSE FailoverLoop([res1 EXCEPT !.cfg = hs.cfg, !.hsFailed = TRUE], cs, i + 1, inp)

FailoverLoop(res, cs, i, inp) ==
    IF i > Len(cs) THEN res
    ELSE LET url == cs[i]
             res1 == [res EXCEPT !.probed = @ \cup {url}]
         IN IF ~build_web3(url) THEN FailoverLoop(res1, cs, i + 1, inp)
            ELSE LET hs == hot_switch(res.cfg, url, inp[url])
                     res2 == [res1 EXCEPT !.healthy = @ \cup {url}]
                 IN IF hs.ok
                    THEN [res2 EXCEPT !.cfg = hs.cfg, !.ret = TRUE, !.url = url]
                    ELSE FailoverLoop([res2 EXCEPT !.cfg = hs.cfg, !.hsFailed = TRUE],
                                      cs, i + 1, inp)

try_failover_keeps_current(c, since, inp) ==
    LET res0 == [RpcResult("try_failover", c) EXCEPT !.since = since]
    IN  IF since < FailoverMinIntervalSec THEN res0
        ELSE IF cands = <<>> THEN res0
        ELSE LET res == FailoverLoop(res0, cands, 1, inp)
             IN IF res.ret THEN [res EXCEPT !.since = 0] ELSE res

\* try_failover, lines 128-154; since = now - _last_failover_ts
try_failover(c, since, inp) ==
    LET res0 == [RpcResult("try_failover", c) EXCEPT !.since = since]
        current == c.chosen_url
        cs == SelectSeq(cands, LAMBDA u : u # current)
    IN  IF since < FailoverMinIntervalSec THEN res0
        ELSE IF cs = <<>> THEN res0
        ELSE LET res == FailoverLoop(res0, cs, 1, inp)
             IN IF res.ret THEN [res EXCEPT !.since = 0] ELSE res

\* maybe_failover_if_stale, lines 157-168: try_failover on both branches
maybe_failover_if_stale(c, since, inp) == try_failover(c, since, inp)

maybe_return_to_preferred_no_cooldown(c, since, inp) ==
    LET res0 == [RpcResult("maybe_return_to_preferred", c) EXCEPT !.since = since]
        preferred == Preferred
    IN  IF preferred = NoUrl THEN res0
        ELSE IF c.chosen_url = preferred THEN res0
        ELSE LET res1 == [res0 EXCEPT !.since = 0, !.probed = {preferred}]
             IN IF ~build_web3(preferred) THEN res1
                ELSE LET hs == hot_switch(c, preferred, inp[preferred])
                     IN [res1 EXCEPT !.cfg = hs.cfg, !.ret = hs.ok, !.healthy = {preferred},
                                     !.url = IF hs.ok THEN preferred ELSE NoUrl,
                                     !.hsFailed = ~hs.ok]

\* maybe_return_to_preferred, lines 171-196; since = now - _last_primary_try_ts
maybe_return_to_preferred(c, since, inp) ==
    LET res0 == [RpcResult("maybe_return_to_preferred", c) EXCEPT !.since = since]
        preferred == Preferred
    IN  IF preferred = NoUrl THEN res0
        ELSE IF c.chosen_url = preferred THEN res0
        ELSE IF since < PrimaryTryCooldownSec THEN res0
        ELSE LET res1 == [res0 EXCEPT !.since = 0, !.probed = {preferred}]
             IN IF ~build_web3(preferred) THEN res1
                ELSE LET hs == hot_switch(c, preferred, inp[preferred])
                     IN [res1 EXCEPT !.cfg = hs.cfg, !.ret = hs.ok, !.healthy = {preferred},
                                     !.url = IF hs.ok THEN preferred ELSE NoUrl,
                                     !.hsFailed = ~hs.ok]

ApplyCfg(c) ==
    /\ cfgWeb3' = c.web3
    /\ chosen_url' = c.chosen_url
    /\ nms' = c.nms
    /\ cfgNm' = c.cfgNm
    /\ cfgDex' = c.dex
    /\ cfgFl' = c.fl

RpcRecord(res) ==
    [op |-> res.op, ret |-> res.ret, url |-> res.url, probed |-> res.probed,
     healthy |-> res.healthy, hsFailed |-> res.hsFailed]

\* ------------------------------------------------- src/arbitrage.py
Dexs == {"UniswapV3", "SushiSwapV2", "QuickSwapV2"}
AmountVals == {1000}
QuoteVals == {0, 1, 900, 1100}
GasVals == {0, 150}

\* the opportunities identificar_melhor_oportunidade can return (buy # sell, line 142)
Opps == {o \in [buy : Dexs, sell : Dexs, amount : AmountVals] : o.buy # o.sell}

\* web3.eth.block_number on endpoint ep
BlockReads(ep) ==
    (IF rpcUp[ep] THEN {h \in 0..height : h >= height - MaxLag} ELSE {}) \cup {ReadErr}

ClockCap(limit, t) == Min(limit, t)
StaleCap == StaleSeconds + TickSeconds

\* lines 448 and 467: the per-leg minimum-output guard
AmountOutMin(q, bps) ==
    IF q > 0 THEN (q * (BpsDenominator - bps)) \div BpsDenominator ELSE 0

\* the leg-2 quote covers the borrowed amount, the flash-loan fee (0.0009) and gas
CoversLoan(q2, amount, gas) ==
    q2 * BpsDenominator >= amount * BpsDenominator + amount * FlashLoanFeeNum + gas * BpsDenominator

\* line 535: the stop signal checked at the top of each iteration
LoopTop ==
    /\ pc = "loop_top"
    /\ pc' = IF stop THEN "stopped" ELSE "health"
    /\ UNCHANGED <<netVars, cfgVars, rpcVars, liqVars, fnVars, stop, DRY_RUN, arbWeb3, lastBlockNum, sinceBlockTs,
                   opp, exec, sentInCycle, lastOp, lastRpc>>

\* lines 539-567 and 573-574: block-height probe, stale check and failover
HealthCheck ==
    /\ pc = "health"
    /\ \E bn \in BlockReads(arbWeb3) :
      \E inp \in IF bn # ReadErr /\ lastBlockNum # NoBlock /\ bn <= lastBlockNum
                    /\ sinceBlockTs > StaleSeconds /\ sinceFailover >= FailoverMinIntervalSec
                 THEN HsChoices ELSE {[u \in Urls |-> [fail |-> "nonce", r |-> ReadErr]]} :
         IF bn = ReadErr
         THEN /\ pc' = "balance"
              /\ UNCHANGED <<cfgVars, rpcVars, liqVars, fnVars, arbWeb3, lastBlockNum, sinceBlockTs, lastRpc>>
         ELSE LET stale == lastBlockNum # NoBlock /\ bn <= lastBlockNum
                           /\ sinceBlockTs > StaleSeconds
                  fo == maybe_failover_if_stale(CfgState, sinceFailover, inp)
                  switched == stale /\ fo.ret
                  num1 == IF switched THEN NoBlock ELSE lastBlockNum
                  ts1 == IF switched THEN StaleCap ELSE sinceBlockTs
              IN /\ pc' = "return_pref"
                 /\ IF stale
                    THEN /\ ApplyCfg(fo.cfg)
                         /\ sinceFailover' = fo.since
                         /\ sinceAttempt' = IF fo.probed # {} THEN 0 ELSE sinceAttempt
                         /\ lastRpc' = RpcRecord(fo)
                    ELSE UNCHANGED <<chosen_url, cfgWeb3, nms, cfgNm, cfgDex, cfgFl,
                                     sinceFailover, sinceAttempt, lastRpc>>
                 /\ arbWeb3' = IF switched THEN fo.cfg.web3 ELSE arbWeb3
                 /\ lastBlockNum' = bn
                 /\ sinceBlockTs' = IF num1 # bn THEN 0 ELSE ts1
                 /\ UNCHANGED <<cands, importWeb3, sincePrimaryTry, metrics>>
    /\ UNCHANGED <<netVars, liqVars, fnVars, stop, DRY_RUN, opp, exec, sentInCycle, lastOp>>

\* lines 568-572: return to the preferred endpoint
ReturnToPreferred ==
    /\ pc = "return_pref"
    /\ \E inp \in IF Preferred # NoUrl /\ build_web3(Preferred)
                 THEN HsChoices ELSE {[u \in Urls |-> [fail |-> "nonce", r |-> ReadErr]]} :
         LET res == maybe_return_to_preferred(CfgState, sincePrimaryTry, inp) IN
         /\ ApplyCfg(res.cfg)
         /\ sincePrimaryTry' = res.since
         /\ lastRpc' = RpcRecord(res)
    /\ pc' = "balance"
    /\ UNCHANGED <<netVars, liqVars, fnVars, cands, importWeb3, sinceFailover, sinceAttempt, metrics,
                   stop, DRY_RUN, arbWeb3,
                   lastBlockNum, sinceBlockTs, opp, exec, sentInCycle, lastOp>>

\* lines 576-593: the balance gates
BalanceGate ==
    /\ pc = "balance"
    /\ \E enough \in BOOLEAN : pc' = IF enough THEN "scan" ELSE "balance_sleep"
    /\ UNCHANGED <<netVars, cfgVars, rpcVars, liqVars, fnVars, stop, DRY_RUN, arbWeb3, lastBlockNum, sinceBlockTs,
                   opp, exec, sentInCycle, lastOp, lastRpc>>

Elapse(d) ==
    /\ sinceFailover' = ClockCap(FailoverMinIntervalSec, sinceFailover + d)
    /\ sincePrimaryTry' = ClockCap(PrimaryTryCooldownSec, sincePrimaryTry + d)
    /\ sinceAttempt' = ClockCap(FailoverMinIntervalSec, sinceAttempt + d)
    /\ UNCHANGED <<metrics, liqVars, fnVars>>
    /\ sinceBlockTs' = ClockCap(StaleCap, sinceBlockTs + d)

\* lines 577-578 and 592-593: time.sleep(300); continue
BalanceSleep ==
    /\ pc = "balance_sleep"
    /\ Elapse(BalanceSleepSeconds)
    /\ pc' = "loop_top"
    /\ nms' = [k \in 0..1 |-> ClearVia(nms[k])]
    /\ lastOp' = NoOp
    /\ lastRpc' = NoRpc
    /\ UNCHANGED <<netVars, cands, chosen_url, cfgWeb3, cfgNm, cfgDex, cfgFl, importWeb3,
                   stop, DRY_RUN, arbWeb3, lastBlockNum, opp, exec, sentInCycle>>

\* lines 612-618: the scan pass returns an opportunity or none
Scan ==
    /\ pc = "scan"
    /\ \E o \in Opps \cup {NoOpp} :
         /\ opp' = o
         /\ pc' = IF o = NoOpp THEN "sleep" ELSE "exec"
    /\ UNCHANGED <<netVars, cfgVars, rpcVars, liqVars, fnVars, stop, DRY_RUN, arbWeb3, lastBlockNum, sinceBlockTs,
                   exec, sentInCycle, lastOp, lastRpc>>

\* executar_arbitragem_com_flashloan, lines 402-511: re-quote both legs, derive
\* the guards, encode the parameters; stop at a zero guard or in dry-run mode
ZeroGuard_never(m1, m2) == FALSE

\* lines 469-471: either minimum-output guard is zero
ZeroGuard(m1, m2) == m1 = 0 \/ m2 = 0

ExecResult_no_dry_run(m1, m2, dry) ==
    IF ZeroGuard(m1, m2) THEN "aborted" ELSE "encoded"

\* lines 469-471 and 495-511: where the function stops before the submission
ExecResult(m1, m2, dry) ==
    IF ZeroGuard(m1, m2) THEN "aborted"
    ELSE IF dry THEN "dry_run"
    ELSE "encoded"

ExecRequote ==
    /\ pc = "exec"
    /\ \E q1 \in QuoteVals : \E q2 \in QuoteVals : \E gas \in GasVals :
         LET m1 == AmountOutMin(q1, SlippageBps)
             m2 == AmountOutMin(q2, SlippageBps)
             res == ExecResult(m1, m2, DRY_RUN)
         IN /\ exec' = [quote2 |-> q2, amountOutMin1 |-> m1, amountOutMin2 |-> m2,
                        gas |-> gas, result |-> res]
            /\ pc' = IF res = "encoded" THEN "submit" ELSE "sleep"
    /\ UNCHANGED <<netVars, cfgVars, rpcVars, liqVars, fnVars, stop, DRY_RUN, arbWeb3, lastBlockNum, sinceBlockTs,
                   opp, sentInCycle, lastOp, lastRpc>>

\* lines 513-525: the flash-loan submission and the reading of its receipt
FlashSubmit(next) ==
    /\ \E r \in NetReads(nms[0].ep) :
         LET n == IF r = ReadErr THEN nms[0].nonce ELSE r IN
         \E o \in TxOutcomes(importWeb3, n, chainNonce) :
            LET st == iniciar_flash_loan(TxState(ClearVia(nms[0])), r, o) IN
            /\ FinishTx("iniciar_flash_loan", 0, st)
            /\ exec' = [exec EXCEPT !.result = st.outcome]
    /\ sentInCycle' = sentInCycle + 1
    /\ pc' = next
    /\ UNCHANGED <<rpcUp, height, cands, chosen_url, cfgWeb3, cfgNm, cfgDex, cfgFl, importWeb3,
                   rpcVars, liqVars, fnVars, stop, DRY_RUN, arbWeb3, lastBlockNum, sinceBlockTs, opp, lastRpc>>

ExecSubmit_retry ==
    /\ pc = "submit"
    /\ FlashSubmit(IF sentInCycle = 0 THEN "submit" ELSE "sleep")

ExecSubmit ==
    /\ pc = "submit"
    /\ FlashSubmit("sleep")

\* lines 623-672: the inter-cycle sleep; the cycle's locals die here
Sleep ==
    /\ pc = "sleep"
    /\ \E d \in {0, TickSeconds} : Elapse(d)
    /\ pc' = "loop_top"
    /\ opp' = NoOpp
    /\ exec' = NoExec
    /\ sentInCycle' = 0
    /\ nms' = [k \in 0..1 |-> ClearVia(nms[k])]
    /\ lastOp' = NoOp
    /\ lastRpc' = NoRpc
    /\ UNCHANGED <<netVars, cands, chosen_url, cfgWeb3, cfgNm, cfgDex, cfgFl, importWeb3,
                   stop, DRY_RUN, arbWeb3, lastBlockNum>>

\* the control surface sets the stop signal
SetStop ==
    /\ ~stop
    /\ stop' = TRUE
    /\ UNCHANGED <<netVars, cfgVars, rpcVars, liqVars, fnVars, pc, DRY_RUN, arbWeb3, lastBlockNum, sinceBlockTs,
                   opp, exec, sentInCycle, lastOp, lastRpc>>

\* the chain grows by a block
NewBlock ==
    /\ pc = "loop_top"
    /\ height < MaxHeight
    /\ height' = height + 1
    /\ UNCHANGED <<rpcUp, chainNonce, pendingTx, cfgVars, rpcVars, liqVars, fnVars, arbVars, lastOp, lastRpc>>

Next ==
    \/ LoopTop
    \/ HealthCheck
    \/ ReturnToPreferred
    \/ BalanceGate
    \/ BalanceSleep
    \/ Scan
    \/ ExecRequote
    \/ ExecSubmit
    \/ Sleep
    \/ SetStop
    \/ AccountTxMined
    \/ DropPending
    \/ RpcChange
    \/ NewBlock

\* The supervisor loop in the configuration without alternative endpoints
\* (CUSTOM_RPC_URL and INFURA_URL unset): the health check runs every cycle
\* and try_failover finds no candidate.
InitExec == Init /\ cands = <<>>

Spec == InitExec /\ [][Next]_vars

\* ------------------------------------------- the endpoint manager on its own
RpcUnchanged ==
    UNCHANGED <<netVars, cands, importWeb3, liqVars, fnVars, arbVars, lastOp>>

\* maybe_failover_if_stale / try_failover called on their own
TryFailover ==
    /\ \E inp \in IF sinceFailover >= FailoverMinIntervalSec
                 THEN HsChoices ELSE {[u \in Urls |-> [fail |-> "nonce", r |-> ReadErr]]} :
         LET fo == maybe_failover_if_stale(CfgState, sinceFailover, inp) IN
         /\ ApplyCfg(fo.cfg)
         /\ sinceFailover' = fo.since
         /\ sinceAttempt' = IF fo.probed # {} THEN 0 ELSE sinceAttempt
         /\ lastRpc' = RpcRecord(fo)
    /\ UNCHANGED <<sincePrimaryTry, metrics>>
    /\ RpcUnchanged

MaybeReturnToPreferred ==
    /\ \E inp \in IF Preferred # NoUrl /\ build_web3(Preferred)
                 THEN HsChoices ELSE {[u \in Urls |-> [fail |-> "nonce", r |-> ReadErr]]} :
         LET res == maybe_return_to_preferred(CfgState, sincePrimaryTry, inp) IN
         /\ ApplyCfg(res.cfg)
         /\ sincePrimaryTry' = res.since
         /\ lastRpc' = RpcRecord(res)
    /\ UNCHANGED <<sinceFailover, sinceAttempt, metrics>>
    /\ RpcUnchanged

\* the wall clock advances
Tick ==
    /\ sinceFailover' = ClockCap(FailoverMinIntervalSec, sinceFailover + TickSeconds)
    /\ sincePrimaryTry' = ClockCap(PrimaryTryCooldownSec, sincePrimaryTry + TickSeconds)
    /\ sinceAttempt' = ClockCap(FailoverMinIntervalSec, sinceAttempt + TickSeconds)
    /\ UNCHANGED <<netVars, cfgVars, metrics, liqVars, fnVars, arbVars, lastOp, lastRpc>>

RpcNext ==
    \/ TryFailover
    \/ MaybeReturnToPreferred
    \/ Tick
    \/ RpcChange

SpecRpc == Init /\ [][RpcNext]_vars

\* --------------------------------------------- the quote layer on its own
\* record_fail, rpc_utils.py lines 224-227, called n times with url = None
RECURSIVE record_fail(_, _, _)
record_fail(m, url, n) ==
    IF n = 0 THEN m ELSE record_fail([m EXCEPT ![url].fails = @ + 1], url, n - 1)

\* record_switch, rpc_utils.py lines 205-208; nothing in the repository calls it
record_switch(m, url) == [m EXCEPT ![url].switches = @ + 1]

QuoteUnchanged ==
    UNCHANGED <<netVars, cfgVars, sinceFailover, sincePrimaryTry, sinceAttempt, fnVars, arbVars,
                lastOp, lastRpc>>

\* One call of a quote function.  The keys of the four functions are disjoint
\* (their kinds differ), so a run calls one function repeatedly.
QuoteRequest ==
    /\ quoteCount < MaxQuotes
    /\ \E fn \in QuoteFns, dex \in QuoteDexs, valid \in BOOLEAN, amount \in QuoteAmounts,
          inp \in QuoteInputs :
         /\ lastQuote.fn \in {"none", fn}
         /\ fn = "quote_v3_multihop" => dex = V3Dex
         /\ LET st == Quote(fn, QuoteState(quote_cache), dex, valid, amount, inp)
                same == /\ lastQuote.fn = fn
                        /\ lastQuote.dex = dex
                        /\ lastQuote.valid = valid
                        /\ lastQuote.amount = amount
            IN /\ quote_cache' = st.cache
               /\ metrics' = record_fail(metrics, chosen_url, st.recorded)
               /\ lastQuote' = [fn |-> fn, dex |-> dex, valid |-> valid, amount |-> amount,
                                ret |-> st.ret, route |-> st.bestRoute, calls |-> st.calls,
                                failed |-> st.failed, recorded |-> st.recorded,
                                maxAttempts |-> st.maxAttempts, hits |-> st.hits,
                                maxHitAge |-> st.maxHitAge,
                                foreignHit |-> st.foreignHit,
                                repeat |-> same /\ lastQuote.age <= CacheTtlSec,
                                prevRet |-> lastQuote.ret, age |-> 0]
    /\ quoteCount' = quoteCount + 1
    /\ QuoteUnchanged

\* time passes: every entry and the last request grow older
QuoteTick ==
    /\ lastQuote.fn # "none"
    /\ lastQuote.age <= CacheTtlSec
    /\ quote_cache' = [k \in CacheKeys |->
                          IF quote_cache[k] = NoEntry THEN NoEntry
                          ELSE [quote_cache[k] EXCEPT
                                   !.age = Min(CacheTtlSec + CacheTick, @ + CacheTick)]]
    /\ lastQuote' = [lastQuote EXCEPT !.age = Min(CacheTtlSec + CacheTick, @ + CacheTick)]
    /\ UNCHANGED <<quoteCount, metrics>>
    /\ QuoteUnchanged

QuoteNext ==
    \/ QuoteRequest
    \/ QuoteTick

SpecQuote == InitExec /\ [][QuoteNext]_vars

\* ------------------------------------------- the pure functions on their own
\* A call of a pure function starts from the state after start-up with no
\* alternative endpoint; its inputs are drawn when the run starts.
InitFn == InitState /\ cands = <<>> /\ DRY_RUN /\ scan = NoScan /\ main = NoMain

FnUnchanged ==
    UNCHANGED <<netVars, cfgVars, rpcVars, liqVars, scan, main, arbVars, lastOp, lastRpc>>

PathInputs ==
    [op : {"path_input"}, token_in : PathTokens, token_out : PathTokens,
     hubs : HubConfigs, max_hops : V3MaxHopsChoices, out : {<<>>}]

InitPaths == InitFn /\ calc \in PathInputs

CandidateV2Paths ==
    /\ calc.op = "path_input"
    /\ calc' = [calc EXCEPT !.op = "_candidate_v2_paths",
                            !.out = candidate_v2_paths(calc.token_in, calc.token_out, calc.hubs)]
    /\ FnUnchanged

QuoteV3Multihop ==
    /\ calc.op = "path_input"
    /\ calc' = [calc EXCEPT !.op = "quote_v3_multihop",
                            !.out = v3_queried(calc.token_in, calc.token_out, calc.hubs,
                                               MultihopFees, calc.max_hops)]
    /\ FnUnchanged

PathsNext ==
    \/ CandidateV2Paths
    \/ QuoteV3Multihop

SpecPaths == InitPaths /\ [][PathsNext]_vars

\* ---------------------------------------------------------------- claims
TxOps == {"iniciar_flash_loan", "realizar_transacao", "realizar_swap"}

\* a network read of the nonce was issued after the transaction's fate was known
Resynced(nm) == nm.via \in NetworkReadMethods \cup {"read_failed"}

\* C1: increment_nonce is performed only right after a receipt with status 1:
\* whenever the last write to a NonceManager in a transaction path was the
\* local increment, that path's transaction succeeded; never after a revert,
\* a receipt timeout or a submit error.
C1_IncrementOnlyAfterSuccess ==
    \A k \in 0..1 :
        nms[k].via = "increment_nonce" =>
            /\ lastOp.op \in TxOps
            /\ lastOp.k = k
            /\ lastOp.outcome = "success"

\* realizar_swap sent an approve and a swap, both confirmed, and the nonce was
\* incremented after each
C1_Witness ==
    /\ lastOp.op = "realizar_swap"
    /\ lastOp.outcome = "success"
    /\ lastOp.sent = 2
    /\ nms[0].via = "increment_nonce"
    /\ nms[0].nonce = lastOp.used + 1

\* C3 (as claimed): after a flash-loan submission whose receipt has status 1
\* the Nonce Sequencer holds the nonce the transaction used plus one.
C3_AdvancedAfterFlashLoanSuccess ==
    (lastOp.op = "iniciar_flash_loan" /\ lastOp.outcome = "success") =>
        nms[lastOp.k].nonce = lastOp.used + 1

\* C4 (as claimed): after a submission that ends in a revert, a receipt
\* timeout or a build/sign/submit error, in any of the three transaction
\* paths, a network resync of the nonce has been performed.
C4_ResyncAfterFailure ==
    (lastOp.op \in TxOps /\ Failed(lastOp.outcome)) => Resynced(nms[lastOp.k])

\* C5: when either minimum-output guard derived from the execution-time
\* quotes is zero, executar_arbitragem_com_flashloan returns without building
\* or submitting anything.
C5_ZeroGuardSendsNothing ==
    (exec.result # "none" /\ (exec.amountOutMin1 = 0 \/ exec.amountOutMin2 = 0)) =>
        /\ exec.result = "aborted"
        /\ pc = "sleep"
        /\ sentInCycle = 0
        /\ lastOp = NoOp

\* a leg-2 quote of 1 gives a zero guard although the quote is positive
C5_Witness ==
    /\ exec.result = "aborted"
    /\ exec.amountOutMin1 > 0
    /\ exec.quote2 > 0
    /\ exec.amountOutMin2 = 0
    /\ ~DRY_RUN

C7_SubmitsOnlyIfStillProfitable ==
    (pc = "submit" \/ sentInCycle > 0) => CoversLoan(exec.quote2, opp.amount, exec.gas)

\* C8: at most one flash-loan submission per supervisor cycle; after it,
\* whatever its fate, the worker goes to the inter-cycle sleep.
C8_OneSubmissionPerCycle ==
    /\ sentInCycle <= 1
    /\ sentInCycle = 1 => pc = "sleep"

\* a failed submission, not retried
C8_Witness ==
    /\ sentInCycle = 1
    /\ lastOp.op = "iniciar_flash_loan"
    /\ lastOp.outcome \in {"revert", "timeout", "submit_error"}
    /\ pc = "sleep"

C10_HotSwapIsAtomic ==
    /\ cfgWeb3 = chosen_url
    /\ nms[cfgNm].ep = chosen_url
    /\ cfgDex = chosen_url
    /\ cfgFl = chosen_url

\* C11 (as claimed): after a successful endpoint switch the handles the
\* transaction path works with (flash_loan's web3 and nonce_manager, bound at
\* import) are bound to the new active endpoint.
C11_HandlesFollowSwitch ==
    lastRpc.ret => (importWeb3 = chosen_url /\ nms[0].ep = chosen_url)

\* C12 (as claimed): a failover attempt that probes alternative endpoints is
\* never made within 120 s of the previous such attempt, whether or not that
\* attempt found a healthy candidate.
C12_NoAttemptWithinCooldown ==
    [][(sinceAttempt' = 0 /\ sinceAttempt # 0) =>
           sinceAttempt >= FailoverMinIntervalSec]_vars

\* C13 (as claimed): when the supervisor's block-height probe raises, a
\* failover attempt is made before the cycle goes on to the balance gate.
C13_ProbeErrorTriggersFailover ==
    [][(pc = "health" /\ pc' = "balance") => lastRpc'.op = "try_failover"]_vars

\* the candidates try_failover may probe, in priority order
C14_Others == SelectSeq(cands, LAMBDA u : u # chosen_url)

\* C14: try_failover never probes the current endpoint, probes the other
\* candidates in priority order, and when it switches, the new endpoint is the
\* first of them whose probe and hot-swap both succeeded; with no other
\* candidate nothing is probed, nothing changes and False is returned.
C14_FirstHealthyInPriorityOrder ==
    [][(lastRpc' # lastRpc /\ lastRpc'.op = "try_failover") =>
          /\ chosen_url \notin lastRpc'.probed
          /\ \A i, j \in 1..Len(C14_Others) :
                (i < j /\ C14_Others[j] \in lastRpc'.probed) =>
                    /\ C14_Others[i] \in lastRpc'.probed
                    /\ lastRpc'.url # C14_Others[i]
                    /\ C14_Others[i] \in lastRpc'.healthy => lastRpc'.hsFailed
          /\ lastRpc'.ret =>
                /\ chosen_url' = lastRpc'.url
                /\ lastRpc'.url \in lastRpc'.healthy
                /\ \E i \in 1..Len(C14_Others) : C14_Others[i] = lastRpc'.url
          /\ C14_Others = <<>> =>
                /\ ~lastRpc'.ret
                /\ lastRpc'.probed = {}
                /\ chosen_url' = chosen_url]_vars

\* the first candidate passed its probe but its hot-swap failed; the second was activated
C14_Witness ==
    /\ lastRpc.op = "try_failover"
    /\ lastRpc.ret
    /\ lastRpc.hsFailed
    /\ Cardinality(lastRpc.healthy) = 2
    /\ chosen_url = lastRpc.url

\* C15: maybe_return_to_preferred probes only when the return cooldown has
\* elapsed since its last probe and the active endpoint is not the preferred
\* one, and the active endpoint changes in it only to the preferred endpoint
\* and only when the probe found it healthy.
C15_ReturnRespectsCooldown ==
    [][/\ (sincePrimaryTry' = 0 /\ sincePrimaryTry # 0) =>
              /\ sincePrimaryTry >= PrimaryTryCooldownSec
              /\ chosen_url # Preferred
              /\ lastRpc'.probed = {Preferred}
       /\ (lastRpc' # lastRpc /\ lastRpc'.op = "maybe_return_to_preferred") =>
              /\ (chosen_url = Preferred \/ sincePrimaryTry < PrimaryTryCooldownSec) =>
                     /\ lastRpc'.probed = {}
                     /\ ~lastRpc'.ret
                     /\ chosen_url' = chosen_url
              /\ chosen_url' # chosen_url =>
                     /\ chosen_url' = Preferred
                     /\ rpcUp[Preferred]
                     /\ Preferred \in lastRpc'.healthy]_vars

\* the worker is back on the preferred endpoint right after a probe
C15_Witness ==
    /\ lastRpc.op = "maybe_return_to_preferred"
    /\ lastRpc.ret
    /\ chosen_url = Preferred
    /\ sincePrimaryTry = 0

\* C16 (as claimed): a successful change of the active endpoint increments
\* the new endpoint's switch counter by one.
C16_SwitchCounted ==
    [][(chosen_url' # chosen_url /\ lastRpc'.ret) =>
           metrics'[chosen_url'].switches = metrics[chosen_url'].switches + 1]_vars

\* C17 (as claimed): a quote request makes at most 2 attempts per external
\* call and every attempt that raised adds one to the active endpoint's
\* failure counter.
C17_FailuresCounted ==
    [][quoteCount' = quoteCount + 1 =>
          /\ lastQuote'.maxAttempts <= QuoteAttempts
          /\ metrics'[chosen_url].fails = metrics[chosen_url].fails + lastQuote'.failed]_vars

\* C18 (as claimed): a quote function never raises to its caller, and returns
\* 0 when the input conversion fails or every external call fails.
C18_QuoteNeverRaises ==
    /\ lastQuote.ret # Raised
    /\ (~lastQuote.valid \/ (lastQuote.hits = 0 /\ lastQuote.failed = lastQuote.calls)) =>
           lastQuote.ret = 0

\* C19 (as claimed): a request to one of the caching quote functions that is
\* identical to the previous one and made within the TTL of it returns the
\* same value without any external call, also when that value was 0; and no
\* entry older than the TTL is returned.
C19_RepeatServedFromCache ==
    /\ (lastQuote.repeat /\ lastQuote.fn # "quote_v3_multihop") =>
           (lastQuote.ret = lastQuote.prevRet /\ lastQuote.calls = 0)
    /\ lastQuote.maxHitAge <= CacheTtlSec

\* C20 (as claimed): a value cached from a quote on one venue is never
\* returned for a request on another venue.
C20_CacheKeyedByVenue ==
    ~lastQuote.foreignHit

EncodeInputs ==
    [op : {"encode_input"}, tokens : SeqsUpTo(TokenIds, MaxPathLen),
     fees : SeqsUpTo(FeeVals, MaxPathLen - 1), out : {EncError}]

InitEncode == InitFn /\ calc \in EncodeInputs

EncodeV3Path ==
    /\ calc.op = "encode_input"
    /\ calc' = [calc EXCEPT !.op = "encode_v3_path",
                            !.out = encode_v3_path(calc.tokens, calc.fees)]
    /\ FnUnchanged

SpecEncode == InitEncode /\ [][EncodeV3Path]_vars

NoLegs == [amount |-> 0, out1 |-> 0, out2 |-> 0, profit |-> 0]

SolverInputs == [op : {"solver_input"}, r : [1..4 -> ReserveVals], legs : {NoLegs}]

InitSolver == InitFn /\ calc \in SolverInputs

\* calcular_quantidade_otima(Rin_a, Rout_a, Rin_b, Rout_b) called with r as it
\* stands, and both legs simulated at the amount it returns
CalcularQuantidadeOtima ==
    /\ calc.op = "solver_input"
    /\ LET r == calc.r
           q == calcular_quantidade_otima(r[1], r[2], r[3], r[4])
       IN  calc' = [calc EXCEPT !.op = "calcular_quantidade_otima",
                                !.legs = TwoLegs(q, r[1], r[2], r[3], r[4])]
    /\ FnUnchanged

\* src/arbitrage.py, lines 150-160: r holds reservas_compra = (r[1], r[2]) and
\* reservas_venda = (r[3], r[4]), both in the order (borrowed token, target
\* token) that obter_reservas_pool_v2 returns; the sell venue's pair is passed
\* reversed
SizeV2Pair ==
    /\ calc.op = "solver_input"
    /\ LET r == calc.r
           q == calcular_quantidade_otima(r[1], r[2], r[4], r[3])
       IN  calc' = [calc EXCEPT !.op = "size_v2_pair",
                                !.legs = TwoLegs(q, r[1], r[2], r[4], r[3])]
    /\ FnUnchanged

SolverNext ==
    \/ CalcularQuantidadeOtima
    \/ SizeV2Pair

SpecSolver == InitSolver /\ [][SolverNext]_vars

\* ------------------------------------------- one scan pass on its own
ScanInputs ==
    [pos : {"token"}, MIN_PROFIT_USDC : MinProfitChoices, TRIANGULAR_ONLY : BOOLEAN,
     ti : {1}, bi : {1}, si : {1}, gi : {1},
     over : {FALSE}, timeout : {FALSE}, melhor_q : {0}, last_best_idx : {0},
     cand : {NoCand}, melhor_oportunidade : {NoBest}, melhor_lucro_liquido : {0},
     expected : {NoBest}, quotedAfterCut : {FALSE}, selectedAfterCut : {FALSE}]

InitScan == InitState /\ cands = <<>> /\ DRY_RUN /\ calc = NoCalc /\ main = NoMain /\ scan \in ScanInputs

ScanUnchanged ==
    UNCHANGED <<netVars, cfgVars, rpcVars, liqVars, calc, main, arbVars, lastOp, lastRpc>>

ScanRunning == scan.pos \notin {"none", "done"}

\* the wall clock passes the budget: time.time() - inicio > budget_sec from now on
BudgetExpires ==
    /\ ScanRunning
    /\ ~scan.over
    /\ scan' = [scan EXCEPT !.over = TRUE]
    /\ ScanUnchanged

\* lines 126-131 and the end of the pass
ScanToken ==
    /\ scan.pos = "token"
    /\ scan' = IF scan.ti > Len(ScanTargets) THEN [scan EXCEPT !.pos = "done"]
               ELSE IF scan.over THEN [scan EXCEPT !.timeout = TRUE, !.pos = "done"]
               ELSE [scan EXCEPT !.pos = "buy", !.bi = 1]
    /\ ScanUnchanged

\* lines 137-140 and 338-339
ScanBuy ==
    /\ scan.pos = "buy"
    /\ scan' = IF scan.bi > Len(ScanVenues)
               THEN IF scan.timeout THEN [scan EXCEPT !.pos = "done"]
                    ELSE [scan EXCEPT !.pos = "token", !.ti = @ + 1]
               ELSE IF scan.over THEN [scan EXCEPT !.timeout = TRUE, !.pos = "done"]
               ELSE [scan EXCEPT !.pos = "sell", !.si = 1]
    /\ ScanUnchanged

\* lines 141-160, 225-227 and 336-337: the next sell venue; for two
\* constant-product venues the size comes from the closed form
ScanSell ==
    /\ scan.pos = "sell"
    /\ IF scan.si > Len(ScanVenues)
       THEN scan' = IF scan.timeout THEN [scan EXCEPT !.pos = "done"]
                    ELSE [scan EXCEPT !.pos = "buy", !.bi = @ + 1]
       ELSE IF scan.si = scan.bi THEN scan' = [scan EXCEPT !.si = @ + 1]
       ELSE IF scan.over THEN scan' = [scan EXCEPT !.timeout = TRUE, !.pos = "done"]
       ELSE \E reservas \in BOOLEAN, q \in {0, 1} :
              scan' = IF ~reservas THEN [scan EXCEPT !.si = @ + 1]
                      ELSE IF ScanVenues[scan.bi] \in V2Dexs /\ ScanVenues[scan.si] \in V2Dexs
                           THEN IF q = 0 THEN [scan EXCEPT !.si = @ + 1]
                                ELSE [scan EXCEPT !.pos = "final", !.melhor_q = q]
                           ELSE [scan EXCEPT !.pos = "grid", !.gi = 1, !.melhor_q = 0,
                                             !.last_best_idx = 0]
    /\ ScanUnchanged

\* one grid entry: quoted and scored, it may become the best size so far
GridStep(n) ==
    \E better \in BOOLEAN :
        scan' = IF better THEN [scan EXCEPT !.gi = @ + 1, !.melhor_q = n, !.last_best_idx = n]
                ELSE [scan EXCEPT !.gi = @ + 1]

\* lines 170-197
ScanGrid ==
    /\ scan.pos = "grid"
    /\ IF scan.gi > Len(GridCandidates)
       THEN scan' = IF ~scan.timeout /\ scan.last_best_idx = Len(GridCandidates)
                    THEN [scan EXCEPT !.pos = "grid_ext", !.gi = 1]
                    ELSE [scan EXCEPT !.pos = "sized"]
       ELSE IF scan.over THEN scan' = [scan EXCEPT !.timeout = TRUE, !.pos = "sized"]
       ELSE GridStep(scan.gi)
    /\ ScanUnchanged

\* lines 198-222
ScanGridExt ==
    /\ scan.pos = "grid_ext"
    /\ IF scan.gi > Len(ExtraCandidates) THEN scan' = [scan EXCEPT !.pos = "sized"]
       ELSE IF scan.over THEN scan' = [scan EXCEPT !.timeout = TRUE, !.pos = "sized"]
       ELSE GridStep(Len(GridCandidates) + scan.gi)
    /\ ScanUnchanged

\* lines 223-227
ScanSized ==
    /\ scan.pos = "sized"
    /\ scan' = IF scan.melhor_q = 0 THEN [scan EXCEPT !.pos = "sell", !.si = @ + 1]
               ELSE [scan EXCEPT !.pos = "final"]
    /\ ScanUnchanged

\* lines 229-293: both legs are quoted again at the chosen size and the
\* candidate is scored
ScanFinal ==
    /\ scan.pos = "final"
    /\ \E bruto \in GrossVals, q \in ScanAmounts, gas \in GasCostVals,
          preco_ok \in BOOLEAN, tri \in BOOLEAN :
         scan' = [scan EXCEPT
                     !.pos = "select",
                     !.quotedAfterCut = @ \/ scan.timeout,
                     !.cand = [lucro_bruto |-> bruto,
                               lucro_liquido |->
                                   calcular_lucro_liquido_esperado(bruto, q, gas, preco_ok),
                               tri |-> tri]]
    /\ ScanUnchanged

\* lines 314-331
ScanSelect ==
    /\ scan.pos = "select"
    /\ LET c == scan.cand
           rec == [token_alvo |-> ScanTargets[scan.ti], dex_compra |-> ScanVenues[scan.bi],
                   dex_venda |-> ScanVenues[scan.si], lucro |-> c.lucro_liquido]
           chosen == /\ ~FilteredOut(scan.TRIANGULAR_ONLY, c.tri)
                     /\ Selects(c.lucro_liquido, scan.melhor_lucro_liquido,
                                scan.MIN_PROFIT_USDC)
       IN  scan' = [scan EXCEPT
                       !.pos = "selected",
                       !.melhor_oportunidade = IF chosen THEN rec ELSE @,
                       !.melhor_lucro_liquido = IF chosen THEN c.lucro_liquido ELSE @,
                       !.selectedAfterCut = @ \/ (chosen /\ scan.timeout),
                       !.expected = ExpectedBest(@, c, scan.TRIANGULAR_ONLY,
                                                 scan.MIN_PROFIT_USDC, rec)]
    /\ ScanUnchanged

\* the end of the loop body: on to the next sell venue
ScanAdvance ==
    /\ scan.pos = "selected"
    /\ scan' = [scan EXCEPT !.pos = "sell", !.si = @ + 1, !.cand = NoCand, !.melhor_q = 0,
                            !.last_best_idx = 0]
    /\ ScanUnchanged

ScanNext ==
    \/ BudgetExpires
    \/ ScanToken
    \/ ScanBuy
    \/ ScanSell
    \/ ScanGrid
    \/ ScanGridExt
    \/ ScanSized
    \/ ScanFinal
    \/ ScanSelect
    \/ ScanAdvance

SpecScan == InitScan /\ [][ScanNext]_vars

\* ------------------------------------------- the grid search on its own
GridInputs ==
    [op : {"grid_input"}, scores : [1..Len(GridSizes) -> GridScores],
     cut : 0..Len(GridSizes), out : {NoGrid}]

InitGrid == InitFn /\ calc \in GridInputs

GridSearch ==
    /\ calc.op = "grid_input"
    /\ calc' = [calc EXCEPT !.op = "grid_search", !.out = grid_search(calc.scores, calc.cut)]
    /\ FnUnchanged

SpecGrid == InitGrid /\ [][GridSearch]_vars

\* ------------------------------------------- the fast-scan gate on its own
\* has_key/cfg_active: config['ACTIVE_TOKENS']; ACTIVE_TOKENS: the global of
\* src/arbitrage.py, bound once at import to config.get('ACTIVE_TOKENS',
\* list(TOKENS.values()))
FastInputs ==
    {[op |-> "cycle", budget_sec |-> b, ema |-> e, has_key |-> h,
      cfg_active |-> IF h THEN SubSeq(TokenList, 1, n) ELSE <<>>,
      ACTIVE_TOKENS |-> IF h THEN SubSeq(TokenList, 1, n) ELSE TokenList,
      fast |-> FALSE, visited |-> <<>>] :
        b \in BudgetChoices, e \in EmaChoices, h \in BOOLEAN, n \in 0..Len(TokenList)}

InitFast == InitFn /\ calc \in FastInputs

\* lines 595-610
FastScanGate ==
    /\ calc.op = "cycle"
    /\ LET fast == fast_scan(calc.budget_sec, calc.ema)
           old_active == IF calc.has_key THEN calc.cfg_active ELSE <<>>
       IN  calc' = [calc EXCEPT !.op = "gated", !.fast = fast,
                                !.has_key = @ \/ fast,
                                !.cfg_active = IF fast THEN first_three(old_active) ELSE @]
    /\ FnUnchanged

\* lines 612-613 and 126-128
ScanPass ==
    /\ calc.op = "gated"
    /\ calc' = [calc EXCEPT !.op = "scanned",
                            !.visited = scan_targets(calc.ACTIVE_TOKENS, TokenList[1])]
    /\ FnUnchanged

FastNext ==
    \/ FastScanGate
    \/ ScanPass

SpecFast == InitFast /\ [][FastNext]_vars

\* ------------------------------------------- the singleton lock
\* (src/bot_main.py, lines 15-34, 45-46 and 111-117).  Two processes start
\* main(); lock is the file at LOCK_PATH, age = now - its mtime.  after[p]:
\* process p was started while the other one was past the lock and running.
Procs == {1, 2}
OtherProc(p) == 3 - p

LockInputs ==
    [kind : {"lock"}, exists : {FALSE}, age : {0}, allow_multi : [Procs -> BOOLEAN],
     proc : {[p \in Procs |-> "off"]}, after : {[p \in Procs |-> FALSE]}]

InitLock == InitState /\ cands = <<>> /\ DRY_RUN /\ calc = NoCalc /\ scan = NoScan
            /\ main \in LockInputs

MainUnchanged ==
    UNCHANGED <<netVars, cfgVars, rpcVars, liqVars, calc, scan, arbVars, lastOp, lastRpc>>

\* a process is launched
ProcStart(p) ==
    /\ main.proc[p] = "off"
    /\ main' = [main EXCEPT !.proc[p] = "start",
                            !.after[p] = main.proc[OtherProc(p)] = "running"]
    /\ MainUnchanged

\* lines 20-25: a lock file exists and is less than 5 minutes old
lock_is_recent(exists, age) == exists /\ age < LockStaleSec

\* lines 19-30: the check of _acquire_singleton_lock
LockCheck(p) ==
    /\ main.proc[p] = "start"
    /\ main' = [main EXCEPT !.proc[p] =
                   IF ~main.allow_multi[p] /\ lock_is_recent(main.exists, main.age)
                   THEN "exited" ELSE "write"]
    /\ MainUnchanged

\* lines 31-32: the lock file is (re)written
LockWrite(p) ==
    /\ main.proc[p] = "write"
    /\ main' = [main EXCEPT !.proc[p] = "running", !.exists = TRUE, !.age = 0]
    /\ MainUnchanged

\* lines 111-118: main() ends and removes the lock file
ProcEnd(p) ==
    /\ main.proc[p] = "running"
    /\ main' = [main EXCEPT !.proc[p] = "done", !.exists = FALSE, !.age = 0]
    /\ MainUnchanged

\* the wall clock advances; nothing touches the lock file while a bot runs
LockTick ==
    /\ main.exists
    /\ main.age < LockStaleSec
    /\ main' = [main EXCEPT !.age = ClockCap(LockStaleSec, @ + TickSeconds)]
    /\ MainUnchanged

LockNext ==
    \/ \E p \in Procs : ProcStart(p)
    \/ \E p \in Procs : LockCheck(p)
    \/ \E p \in Procs : LockWrite(p)
    \/ \E p \in Procs : ProcEnd(p)
    \/ LockTick

SpecLock == InitLock /\ [][LockNext]_vars

\* ------------------------------------------- the control surface
\* (src/bot_main.py, lines 36-110).  thread[t]: where worker thread t is in
\* iniciar_bot_arbitragem ("unborn" before it is created, "dead" once
\* run_bot_thread has returned); bot_thread: the thread main() refers to (0:
\* None); cmd: the command handled by the last step, "none" for a worker's step.
Threads == 1..MaxThreads
Alive(pcT) == pcT \in {"loop_top", "cycle", "sleep"}

CtlInputs ==
    [kind : {"ctl"}, ui : {"boot"}, auto : BOOLEAN, timed : BOOLEAN,
     thread : {[t \in Threads |-> "unborn"]}, bot_thread : {0}, stop_event : {FALSE},
     created : {0}, cmd : {"none"}]

InitCtl == InitState /\ cands = <<>> /\ DRY_RUN /\ calc = NoCalc /\ scan = NoScan
           /\ main \in CtlInputs

already_running_never(m) == FALSE
\* lines 77, 86 and 94: bot_thread and bot_thread.is_alive()
already_running(m) == m.bot_thread # 0 /\ Alive(m.thread[m.bot_thread])

\* lines 61-63 and 81-83: clear the stop signal, create and start a thread
start_thread(m) ==
    [m EXCEPT !.stop_event = FALSE, !.created = @ + 1, !.bot_thread = m.created + 1,
              !.thread[m.created + 1] = "loop_top"]

\* lines 55-72: the autostart mode, timed or not
Boot ==
    /\ main.kind = "ctl" /\ main.ui = "boot"
    /\ main' = IF main.auto
               THEN [start_thread(main) EXCEPT !.ui = IF main.timed THEN "auto_wait" ELSE "prompt",
                                               !.cmd = "autostart"]
               ELSE [main EXCEPT !.ui = "prompt", !.cmd = "autostart"]
    /\ MainUnchanged

\* lines 67-71: the timed autostart ends
AutoStop ==
    /\ main.kind = "ctl" /\ main.ui = "auto_wait"
    /\ main' = [main EXCEPT !.stop_event = TRUE, !.ui = "exiting", !.cmd = "autostart"]
    /\ MainUnchanged

\* lines 76-83
CmdStart ==
    /\ main.kind = "ctl" /\ main.ui = "prompt"
    /\ already_running(main) \/ main.created < MaxThreads
    /\ main' = IF already_running(main) THEN [main EXCEPT !.cmd = "start"]
               ELSE [start_thread(main) EXCEPT !.cmd = "start"]
    /\ MainUnchanged

\* lines 85-90
CmdStop ==
    /\ main.kind = "ctl" /\ main.ui = "prompt"
    /\ main' = [main EXCEPT !.stop_event = @ \/ already_running(main), !.cmd = "stop"]
    /\ MainUnchanged

\* lines 92-100 and 105-109: exit, or Ctrl+C
CmdExit ==
    /\ main.kind = "ctl" /\ main.ui = "prompt"
    /\ main' = [main EXCEPT !.stop_event = @ \/ already_running(main), !.ui = "exiting",
                            !.cmd = "exit"]
    /\ MainUnchanged

\* main() has returned: the process ends and its daemon threads with it
Shutdown ==
    /\ main.kind = "ctl" /\ main.ui = "exiting"
    /\ main' = [main EXCEPT !.ui = "exited", !.cmd = "none",
                            !.thread = [t \in Threads |->
                                           IF Alive(main.thread[t]) THEN "dead" ELSE main.thread[t]]]
    /\ MainUnchanged

\* lines 36-43 and arbitrage.py 535-674: a worker thread moves on; it leaves
\* the loop at the loop-top check once the stop signal is set
WorkerStep(t) ==
    /\ main.kind = "ctl" /\ Alive(main.thread[t])
    /\ main' = [main EXCEPT !.cmd = "none",
                            !.thread[t] = IF @ = "loop_top"
                                          THEN IF main.stop_event THEN "dead" ELSE "cycle"
                                          ELSE IF @ = "cycle" THEN "sleep" ELSE "loop_top"]
    /\ MainUnchanged

\* lines 40-43: the worker's function raised; the thread ends
WorkerCrash(t) ==
    /\ main.kind = "ctl" /\ Alive(main.thread[t])
    /\ main' = [main EXCEPT !.cmd = "none", !.thread[t] = "dead"]
    /\ MainUnchanged

CtlNext ==
    \/ Boot
    \/ AutoStop
    \/ CmdStart
    \/ CmdStop
    \/ CmdExit
    \/ Shutdown
    \/ \E t \in Threads : WorkerStep(t)
    \/ \E t \in Threads : WorkerCrash(t)

SpecCtl == InitCtl /\ [][CtlNext]_vars

\* ------------------------------------------- the supervisor loop's control flow
\* (src/arbitrage.py, lines 535-674), with the exceptions its steps can raise.
\* raised: the step of the current cycle that last raised ("none" if none
\* did); stopAt: where the worker was when the stop signal was set;
\* attempts: receipt polls made by verificar_recibo.
SupInputs ==
    [kind : {"sup"}, pc : {"loop_top"}, stop : {FALSE}, raised : {"none"},
     stopAt : {"none"}, attempts : {0}]

InitSup == InitState /\ cands = <<>> /\ DRY_RUN /\ calc = NoCalc /\ scan = NoScan
           /\ main \in SupInputs

SupLoopTop_ignores_stop ==
    /\ main.kind = "sup" /\ main.pc = "loop_top"
    /\ main' = [main EXCEPT !.pc = "health", !.raised = "none"]
    /\ MainUnchanged

\* line 535: while not stop_event.is_set()
SupLoopTop ==
    /\ main.kind = "sup" /\ main.pc = "loop_top"
    /\ main' = [main EXCEPT !.pc = IF main.stop THEN "stopped" ELSE "health",
                            !.raised = "none"]
    /\ MainUnchanged

\* lines 539-574: the health probe; what it raises is caught at line 573 and
\* the cycle goes on
SupHealth ==
    /\ main.kind = "sup" /\ main.pc = "health"
    /\ \E raises \in BOOLEAN :
         main' = [main EXCEPT !.pc = "balance",
                              !.raised = IF raises THEN "health" ELSE @]
    /\ MainUnchanged

\* lines 576-593 and wallet_manager.py 34-67: the balance gates.  An error of
\* the balance read is caught inside verificar_saldo_matic_suficiente, which
\* then returns False
SupBalance ==
    /\ main.kind = "sup" /\ main.pc = "balance"
    /\ \E r \in {"enough", "low", "raises"} :
         main' = [main EXCEPT !.pc = IF r = "enough" THEN "scan" ELSE "balance_sleep",
                              !.raised = IF r = "raises" THEN "balance" ELSE @]
    /\ MainUnchanged

\* lines 577-578 and 592-593: time.sleep(300); continue
SupBalanceSleep ==
    /\ main.kind = "sup" /\ main.pc = "balance_sleep"
    /\ main' = [main EXCEPT !.pc = "loop_top"]
    /\ MainUnchanged

\* lines 612-621: the scan returns an opportunity or none, or raises into the
\* handler of line 620
SupScan ==
    /\ main.kind = "sup" /\ main.pc = "scan"
    /\ \E r \in {"found", "nothing", "raises"} :
         main' = [main EXCEPT !.pc = IF r = "found" THEN "exec" ELSE "sleep",
                              !.raised = IF r = "raises" THEN "scan" ELSE @]
    /\ MainUnchanged

\* lines 402-525: the execution stops early, raises (caught at line 524), or
\* submits the transaction and starts polling for its receipt
SupExec ==
    /\ main.kind = "sup" /\ main.pc = "exec"
    /\ \E r \in {"stops", "raises", "submitted"} :
         main' = [main EXCEPT !.pc = IF r = "submitted" THEN "poll" ELSE "sleep",
                              !.attempts = 0,
                              !.raised = IF r = "raises" THEN "exec" ELSE @]
    /\ MainUnchanged

\* flash_loan.py lines 67-84: one pass of the polling loop of verificar_recibo
SupPoll ==
    /\ main.kind = "sup" /\ main.pc = "poll"
    /\ IF main.attempts >= MaxAttempts
       THEN main' = [main EXCEPT !.pc = "sleep", !.raised = "exec"]
       ELSE \E r \in {"receipt", "none", "raises"} :
              main' = IF r = "none" THEN [main EXCEPT !.attempts = @ + 1]
                      ELSE [main EXCEPT !.pc = "sleep",
                                        !.raised = IF r = "raises" THEN "exec" ELSE @]
    /\ MainUnchanged

\* lines 623-672: the inter-cycle sleep
SupSleep ==
    /\ main.kind = "sup" /\ main.pc = "sleep"
    /\ main' = [main EXCEPT !.pc = "loop_top", !.attempts = 0]
    /\ MainUnchanged

\* bot_main.py lines 90, 96: the control surface sets the stop signal
SupSetStop ==
    /\ main.kind = "sup" /\ ~main.stop /\ main.pc # "stopped"
    /\ main' = [main EXCEPT !.stop = TRUE, !.stopAt = main.pc]
    /\ MainUnchanged

SupWorker ==
    \/ SupLoopTop
    \/ SupHealth
    \/ SupBalance
    \/ SupBalanceSleep
    \/ SupScan
    \/ SupExec
    \/ SupPoll
    \/ SupSleep

SupNext ==
    \/ SupWorker
    \/ SupSetStop

SpecSup == InitSup /\ [][SupNext]_vars

\* every call of a cycle returns or raises, and every sleep ends
SpecSupLive == SpecSup /\ WF_vars(SupWorker)

\* ------------------------------------------- the slippage guard in full width
\* (src/arbitrage.py, lines 448 and 467): int(quote * (10_000 - slippage_bps) / 10_000)
\* with quote an int: the product is exact, "/" is Python's true division of
\* two ints (the quotient correctly rounded to a binary64 float, ties to even)
\* and int() truncates.  Naturals wider than 31 bits are little-endian
\* sequences of limbs below LimbBase; results are big-endian bit sequences
\* without leading zeros (<<>> is 0).
LimbBits == 15
LimbBase == 2^LimbBits

RECURSIVE MulLoop(_, _, _, _)
MulLoop(x, m, i, carry) ==
    IF i > Len(x) THEN (IF carry = 0 THEN <<>> ELSE <<carry>>)
    ELSE LET t == x[i] * m + carry
         IN <<t % LimbBase>> \o MulLoop(x, m, i + 1, t \div LimbBase)

RECURSIVE DivLoop(_, _, _, _)
DivLoop(x, d, i, rem) ==
    IF i = 0 THEN [q |-> <<>>, r |-> rem]
    ELSE LET cur == rem * LimbBase + x[i]
             rec == DivLoop(x, d, i - 1, cur % d)
         IN [q |-> rec.q \o <<cur \div d>>, r |-> rec.r]

RECURSIVE BitsOfLimb(_, _)
BitsOfLimb(v, k) == IF k = 0 THEN <<>> ELSE BitsOfLimb(v \div 2, k - 1) \o <<v % 2>>

RECURSIVE AllBits(_, _)
AllBits(x, i) == IF i = 0 THEN <<>> ELSE BitsOfLimb(x[i], LimbBits) \o AllBits(x, i - 1)

RECURSIVE Strip(_)
Strip(b) == IF b = <<>> THEN b ELSE IF b[1] = 0 THEN Strip(Tail(b)) ELSE b

ToBits(x) == Strip(AllBits(x, Len(x)))

RECURSIVE Inc(_)
Inc(b) ==
    IF b = <<>> THEN <<1>>
    ELSE IF b[Len(b)] = 0 THEN [b EXCEPT ![Len(b)] = 1]
    ELSE Inc(SubSeq(b, 1, Len(b) - 1)) \o <<0>>

RECURSIVE LexLeq(_, _, _)
LexLeq(a, b, i) ==
    IF i > Len(a) THEN TRUE
    ELSE IF a[i] # b[i] THEN a[i] < b[i]
    ELSE LexLeq(a, b, i + 1)

LeqBits(a, b) == Len(a) < Len(b) \/ (Len(a) = Len(b) /\ LexLeq(a, b, 1))

\* the first k binary digits of r / d (0 <= r < d): whether all are 1, and
\* what remains
RECURSIVE FracLoop(_, _, _)
FracLoop(r, d, k) ==
    IF k = 0 THEN [ones |-> TRUE, r |-> r]
    ELSE LET bit == IF 2 * r >= d THEN 1 ELSE 0
             rec == FracLoop(2 * r - bit * d, d, k - 1)
         IN [ones |-> bit = 1 /\ rec.ones, r |-> rec.r]

\* int(n / d) for ints n >= 0 and 0 < d < LimbBase: n / d rounded to
\* MantissaBits significant bits, ties to even, then truncated.  (Below 1 the
\* float keeps more than MantissaBits fraction bits; it still cannot round up
\* to 1, as 1 - r/d >= 1/d.)
int_true_divide(n, d) ==
    LET dv == DivLoop(n, d, Len(n), 0)
        Q == ToBits(dv.q)
        R == dv.r
        L == Len(Q)
    IN  IF L > MantissaBits
        THEN LET M == SubSeq(Q, 1, MantissaBits)
                 g == Q[MantissaBits + 1]
                 sticky == R > 0 \/ \E i \in (MantissaBits + 2)..L : Q[i] = 1
                 up == g = 1 /\ (sticky \/ M[MantissaBits] = 1)
             IN (IF up THEN Inc(M) ELSE M) \o [i \in 1..(L - MantissaBits) |-> 0]
        ELSE IF L = MantissaBits
        THEN IF 2 * R > d \/ (2 * R = d /\ Q[L] = 1) THEN Inc(Q) ELSE Q
        ELSE LET fr == FracLoop(R, d, MantissaBits - L)
             IN IF fr.ones /\ 2 * fr.r >= d THEN Inc(Q) ELSE Q

\* the exact quotient, floor(n / d)
floor_divide(n, d) == ToBits(DivLoop(n, d, Len(n), 0).q)

\* lines 448 and 467; quote = <<>> is the quote 0
amountOutMin(quote, slippage_bps) ==
    IF quote # <<>>
    THEN int_true_divide(MulLoop(quote, BpsDenominator - slippage_bps, 1, 0), BpsDenominator)
    ELSE <<>>

GuardQuotes ==
    {<<>>,
     <<1>>,
     <<900>>,
     <<1100>>,
     <<16960, 30>>,
     <<21873, 15096, 1350>>,
     <<4791, 12732, 26749>>,
     <<24409, 4751, 26372, 3>>,
     <<3, 0, 0, 256>>,
     <<22199, 4946, 13364, 472>>,
     <<0, 20168, 23246, 28421>>,
     <<1, 27736, 4203, 19729, 2>>,
     <<2771, 22078, 9779, 23205, 10>>}
GuardBps == {0, 1, 50, 70, 5000, 10000}

GuardInputs == [op : {"guard_in"}, quote : GuardQuotes, slippage_bps : GuardBps]

InitGuard == InitFn /\ calc \in GuardInputs

GuardCalc ==
    /\ calc.op = "guard_in"
    /\ calc' = [op |-> "guard", quote |-> ToBits(calc.quote), slippage_bps |-> calc.slippage_bps,
                guard |-> amountOutMin(calc.quote, calc.slippage_bps),
                floor |-> floor_divide(MulLoop(calc.quote, BpsDenominator - calc.slippage_bps, 1, 0),
                                       BpsDenominator)]
    /\ FnUnchanged

SpecGuard == InitGuard /\ [][GuardCalc]_vars

\* C21: every route produced by _candidate_v2_paths, and every candidate
\* quote_v3_multihop queries, has between 2 and 4 tokens and no two adjacent
\* equal tokens, whatever the end tokens and the hub configuration.
C21_WellFormed(p) ==
    /\ Len(p) \in 2..4
    /\ \A k \in 1..(Len(p) - 1) : p[k] # p[k + 1]

C21_RoutesWellFormed ==
    /\ calc.op = "_candidate_v2_paths" => \A i \in 1..Len(calc.out) : C21_WellFormed(calc.out[i])
    /\ calc.op = "quote_v3_multihop" =>
           \A i \in 1..Len(calc.out) : C21_WellFormed(calc.out[i].toks)

\* C22: no quoted route has more intermediate hubs than the configured bound
\* of its venue kind, and no candidate is quoted twice.
C22_HopBoundAndNoDuplicates ==
    /\ calc.op = "_candidate_v2_paths" =>
           /\ \A i \in 1..Len(calc.out) : Len(calc.out[i]) - 2 <= V2_MAX_HOPS
           /\ \A i, j \in 1..Len(calc.out) : i # j => calc.out[i] # calc.out[j]
    /\ calc.op = "quote_v3_multihop" =>
           /\ \A i \in 1..Len(calc.out) : Len(calc.out[i].toks) - 2 <= calc.max_hops
           /\ \A i, j \in 1..Len(calc.out) : i # j => calc.out[i] # calc.out[j]

\* C23: for N in 2..4 tokens and N-1 fees that fit in 24 bits, encode_v3_path
\* yields 20*N + 3*(N-1) bytes: the 20-byte tokens interleaved with the fees
\* as 3 big-endian bytes, so that reading the bytes back by position recovers
\* the tokens and the fees; fewer than 2 tokens or a fee count other than N-1
\* is rejected.
C23_ValidInput ==
    /\ Len(calc.tokens) \in 2..4
    /\ Len(calc.fees) = Len(calc.tokens) - 1
    /\ \A i \in 1..Len(calc.fees) : calc.fees[i] \in 0..Uint24Max

C23_TokenAt(bytes, i) == SubSeq(bytes, 23 * (i - 1) + 1, 23 * (i - 1) + 20)

C23_FeeAt(bytes, i) ==
    bytes[23 * (i - 1) + 21] * 65536 + bytes[23 * (i - 1) + 22] * 256 + bytes[23 * i]

C23_EncodeRoundTrip ==
    calc.op = "encode_v3_path" =>
        /\ C23_ValidInput =>
               /\ calc.out.ok
               /\ Len(calc.out.bytes) = 20 * Len(calc.tokens) + 3 * (Len(calc.tokens) - 1)
               /\ \A k \in 1..Len(calc.out.bytes) : calc.out.bytes[k] \in 0..255
               /\ \A i \in 1..Len(calc.tokens) : C23_TokenAt(calc.out.bytes, i) = calc.tokens[i]
               /\ \A i \in 1..Len(calc.fees) : C23_FeeAt(calc.out.bytes, i) = calc.fees[i]
        /\ (Len(calc.tokens) < 2 \/ Len(calc.fees) # Len(calc.tokens) - 1) => ~calc.out.ok

C23_Witness ==
    /\ calc.op = "encode_v3_path"
    /\ Len(calc.tokens) = 4
    /\ calc.fees = <<500, Uint24Max, 3000>>
    /\ calc.tokens[1] # calc.tokens[2]
    /\ calc.out.ok

C25_ScenarioAProfitable ==
    (calc.op = "size_v2_pair" /\ calc.r = <<100, 200, 200, 100>>) =>
        (calc.legs.amount > 0 /\ calc.legs.profit > 0)

\* C26: when both venues quote the same price (all reserves positive), the
\* two legs simulated at the amount the solver returns give a gross profit
\* that is zero or negative.
C26_EqualPrice ==
    /\ \A i \in 1..4 : calc.r[i] > 0
    /\ calc.r[2] * calc.r[4] = calc.r[1] * calc.r[3]

C26_NoProfitWhenArbitrageFree ==
    (calc.op = "calcular_quantidade_otima" /\ C26_EqualPrice) => calc.legs.profit <= 0

C26_Witness ==
    /\ calc.op = "calcular_quantidade_otima"
    /\ C26_EqualPrice
    /\ calc.legs.amount > 0
    /\ calc.legs.profit < 0

\* C27 (Scenario B): when both venues hold identical reserves (x, y), the
\* scanner's closed-form sizing returns 0, so no opportunity is reported for
\* that combination, for every x and y.
C27_IdenticalReservesGiveZero ==
    (calc.op = "size_v2_pair" /\ calc.r[1] = calc.r[3] /\ calc.r[2] = calc.r[4]) =>
        calc.legs.amount = 0

\* C28: the pass returns the candidate of greatest net profit among the
\* evaluated candidates whose net profit meets the configured minimum (and
\* that pass the multi-hop-only filter), the first seen on ties, and none
\* only if no evaluated candidate meets the minimum - a candidate whose net
\* profit equals the minimum included.
C28_ReturnsBestMeetingMinimum ==
    scan.pos = "done" => scan.melhor_oportunidade = scan.expected

\* C29: the scanner never selects a candidate whose net profit is negative,
\* whatever its gross profit, and so none scored with an infinite gas cost.
C29_NeverSelectsNegativeNet ==
    /\ (scan.pos # "none" /\ scan.melhor_oportunidade # NoBest) =>
           scan.melhor_oportunidade.lucro >= 0
    /\ (scan.pos = "selected" /\ scan.cand.lucro_liquido < 0) =>
           \/ scan.melhor_oportunidade = NoBest
           \/ scan.melhor_oportunidade.dex_compra # ScanVenues[scan.bi]
           \/ scan.melhor_oportunidade.dex_venda # ScanVenues[scan.si]
           \/ scan.melhor_oportunidade.token_alvo # ScanTargets[scan.ti]

C29_Witness ==
    /\ scan.pos = "selected"
    /\ scan.cand.lucro_bruto > 0
    /\ scan.cand.lucro_liquido < 0
    /\ scan.cand.lucro_liquido >= scan.MIN_PROFIT_USDC
    /\ ~scan.TRIANGULAR_ONLY
    /\ scan.melhor_oportunidade = NoBest

\* C30: once a loop-level check has found the budget exceeded, the pass
\* issues no further quote call and selects no further candidate: it returns
\* the best opportunity selected before the cut-off.
C30_NothingAfterCutOff ==
    (scan.pos # "none" /\ scan.timeout) => (~scan.quotedAfterCut /\ ~scan.selectedAfterCut)

\* C31: the stop signal is checked again before the execution is committed
\* to: when it is set before the scanner returns its opportunity, no
\* execution (re-quote, build, submit) is started in that cycle.
C31_NoExecutionAfterStop ==
    [][(stop /\ pc = "scan") => pc' # "exec"]_vars

\* C39: a flash-loan submission that the network accepts never carries the
\* nonce of an earlier transaction that is still pending.
C39_NoNonceReuseWhilePending ==
    [][(/\ lastOp' # lastOp
        /\ lastOp'.op = "iniciar_flash_loan"
        /\ lastOp'.outcome \in {"timeout", "success", "revert"}) =>
           lastOp'.used \notin pendingTx]_vars

\* C34: the size the grid search chooses is 0 or a size whose net profit is
\* strictly positive and the greatest among the sizes evaluated, the first
\* evaluated on ties; and the extension is probed exactly when the best size
\* of the base grid is its largest and the budget has not run out by then.
C34_Scored == {k \in calc.out.evaluated : calc.scores[k] # NoScore}

C34_BaseBest ==
    LET base == {k \in C34_Scored : k <= Len(GridCandidates) /\ calc.scores[k] > 0}
    IN  IF base = {} THEN 0
        ELSE CHOOSE k \in base :
                 \A j \in base : calc.scores[j] < calc.scores[k]
                                 \/ (calc.scores[j] = calc.scores[k] /\ j >= k)

C34_GridChoosesBest ==
    calc.op = "grid_search" =>
        /\ \/ /\ calc.out.melhor_q = 0
              /\ \A k \in C34_Scored : calc.scores[k] <= 0
           \/ \E k \in C34_Scored :
                 /\ calc.out.melhor_q = GridSizes[k]
                 /\ calc.scores[k] > 0
                 /\ \A j \in C34_Scored :
                        calc.scores[j] < calc.scores[k]
                        \/ (calc.scores[j] = calc.scores[k] /\ j >= k)
        /\ calc.out.ext # {} <=>
               /\ C34_BaseBest = Len(GridCandidates)
               /\ (calc.cut = 0 \/ calc.cut > Len(GridCandidates) + 1)

C34_Witness ==
    /\ calc.op = "grid_search"
    /\ calc.scores[1] = 2
    /\ calc.scores[Len(GridCandidates)] = 2
    /\ Len(GridCandidates) > 1
    /\ calc.out.melhor_q = GridSizes[1]
    /\ calc.out.ext = {}
    /\ calc.cut = 0

\* C36: in a fast-scan cycle (scan budget <= 60 s or block latency above
\* 2000 ms) the scan pass iterates over no more than the first 3 active
\* tokens.
C36_FastScanVisitsFirstThree ==
    (calc.op = "scanned" /\ calc.fast) =>
        \A i \in 1..Len(calc.visited) :
            \E k \in 1..Min(FastScanTokens, Len(calc.ACTIVE_TOKENS)) :
                calc.visited[i] = calc.ACTIVE_TOKENS[k]

\* C37: while a process that passed _acquire_singleton_lock is running, a
\* process started after it without ALLOW_MULTIPLE never passes the lock,
\* however long the first has been running.
C37_SecondInstanceNeverPasses ==
    main.kind = "lock" =>
        \A p \in Procs :
            (main.after[p] /\ ~main.allow_multi[p] /\ main.proc[p] \in {"write", "running"}) =>
                main.proc[OtherProc(p)] # "running"

C38_OneChangePerCooldown ==
    [][chosen_url' # chosen_url => sinceFailover >= FailoverMinIntervalSec]_vars

\* C33: a step of the cycle that raises does not end the loop and does not
\* change the cycle's pause: the worker goes on with the cycle or to the
\* standard inter-cycle sleep, never to the end of the loop and never to
\* another pause.
C33_ExceptionLeadsToStandardSleep ==
    [][(main.kind = "sup" /\ main'.raised # "none" /\ main'.raised # main.raised) =>
          main'.pc \in {"balance", "scan", "exec", "sleep"}]_vars

\* C40: once the stop signal is set the worker loop terminates: no cycle is
\* started after it (the loop-top check that finds it set leaves the loop),
\* and the cycle in progress, with its bounded receipt polling, runs to the
\* loop-top check.
C40_StopTerminatesLoop ==
    /\ [][(main.kind = "sup" /\ main.stop /\ main.pc = "loop_top" /\ main' # main) =>
             main'.pc = "stopped"]_vars
    /\ ((main.kind = "sup" /\ main.stop) ~> (main.pc = "stopped"))

C40_Witness ==
    /\ main.kind = "sup"
    /\ main.stopAt = "poll"
    /\ main.pc = "stopped"

\* C35: for every quote and every slippage_bps in 0..10000 the
\* minimum-output guard is floor(quote * (10000 - slippage_bps) / 10000) and
\* is at most the quote; for the quote 0 it is 0.
C35_GuardIsFloor ==
    calc.op = "guard" =>
        /\ calc.guard = calc.floor
        /\ LeqBits(calc.guard, calc.quote)
        /\ calc.quote = <<>> => calc.guard = <<>>
====
